---- MODULE Spec2Model ----
(***************************************************************************)
(* RepoScope (jagrut-bhole/repo-info): the Express server's routes,        *)
(* storage and LLM client, the GitHub client's batched file fetch and the  *)
(* Cloudflare Worker variant's in-memory signup.                           *)
(*                                                                         *)
(* Text is modelled as a sequence of one-character strings, so that the    *)
(* regular expressions and string methods of the source are computed       *)
(* character by character.                                                 *)
(***************************************************************************)
EXTENDS Naturals, Sequences, FiniteSets, TLC

VARIABLES
    \* ---- parseGitHubUrl applied to one input (SpecUrl)
    pgPc,        \* "input" | "parsed"
    pgParts,     \* how the input was put together (the form it has)
    pgInput,     \* the url argument
    pgResult,    \* what parseGitHubUrl returned
    pgWorker,    \* what the Worker's parseGitHubUrl returned
    pgClient,    \* whether the client's validateUrl accepted the input
    \* ---- one call of fetchKeyFiles (SpecKeyFiles)
    kfPc,        \* "call" | "await" (Promise.all pending) | "done" | "threw"
    kfAllFiles,  \* the allFiles argument (the repository's tree)
    kfFailPos,   \* the position in limitedFiles whose content fetch fails (0: none)
    kfLimited,   \* limitedFiles
    kfI,         \* the batch loop's i
    kfInflight,  \* positions of limitedFiles whose fetchFileContent is pending
    kfResults,   \* results
    \* ---- the Express server (Spec)
    geminiKey,   \* process.env.GEMINI_API_KEY is set
    users,       \* rows of the users table
    nextUserId,  \* ids given to user rows so far, plus one
    analyses,    \* rows of the analyses table
    nextId,      \* the analyses table's serial
    reqs,        \* the /api/analyze and /api/user/analyses requests in progress
    \* ---- sign-up and sign-in (SpecAuth)
    variant,     \* the server deployed: "express" | "worker"
    wUsers,      \* the Worker's memoryStorage.users
    wNextId,     \* crypto.randomUUID() results so far, plus one
    authReqs,    \* the /api/auth requests in progress
    \* ---- one call of analyzeRepository (SpecGemini)
    gmPc,        \* "call" | "first" | "second" (generateContent pending) | "returned" | "threw"
    gmArgs,      \* the arguments repoInfo, keyFiles, languages
    gmPrompts,   \* the prompts passed to generateContent, in order
    gmResponses, \* what generateContent answered, in order
    gmOut,       \* the value returned or the error thrown
    \* ---- the analysis page reading one response stream (SpecStream)
    stPc,        \* "reading" | "returned" (after an error step) | "done"
    stSent,      \* the events the server sent, in order
    stPos,       \* how many characters of the response reader.read() has delivered
    stBuffer,    \* buffer
    stSteps,     \* the steps state
    stAnalysis,  \* setAnalysis was called
    stCuts,      \* the kinds of place a chunk has ended at
    \* ---- one call of buildFlowElements (SpecFlow)
    flPc,        \* "call" | "built"
    flAnalysis,  \* the analysis argument
    flNodes,     \* the nodes returned
    flEdges,     \* the edges returned
    \* ---- the Worker's analyze route (SpecWorker)
    wkReqs,      \* the /api/analyze requests in progress at the Worker
    wkAnalyses,  \* memoryStorage.analyses
    wkCounter    \* memoryStorage.analysisCounter

pgVars == <<pgPc, pgParts, pgInput, pgResult, pgWorker, pgClient>>

exVars == <<geminiKey, analyses, nextId, reqs>>

userVars == <<users, nextUserId>>

authVars == <<variant, wUsers, wNextId, authReqs>>

kfVars == <<kfPc, kfAllFiles, kfFailPos, kfLimited, kfI, kfInflight, kfResults>>

gmVars == <<gmPc, gmArgs, gmPrompts, gmResponses, gmOut>>

stVars == <<stPc, stSent, stPos, stBuffer, stSteps, stAnalysis, stCuts>>

flVars == <<flPc, flAnalysis, flNodes, flEdges>>

wkVars == <<wkReqs, wkAnalyses, wkCounter>>

pageVars == <<stVars, flVars, wkVars>>

----------------------------------------------------------------------------
(* Strings *)

\* String.prototype.trim strips white space and line terminators.
Whitespace == {" ", "\t", "\n"}

Drop(s, n) == SubSeq(s, n + 1, Len(s))

Take(s, n) == SubSeq(s, 1, n)

StartsWith(s, p) == Len(s) >= Len(p) /\ Take(s, Len(p)) = p

EndsWith(s, p) == Len(s) >= Len(p) /\ Drop(s, Len(s) - Len(p)) = p

Includes(s, c) == \E i \in 1..Len(s) : s[i] = c

RECURSIVE trimStart(_)
trimStart(s) ==
    IF s # <<>> /\ Head(s) \in Whitespace THEN trimStart(Tail(s)) ELSE s

RECURSIVE trimEnd(_)
trimEnd(s) ==
    IF s # <<>> /\ s[Len(s)] \in Whitespace
    THEN trimEnd(Take(s, Len(s) - 1)) ELSE s

trim(s) == trimEnd(trimStart(s))

\* s.replace(/\/+$/, "")
RECURSIVE stripTrailingSlashes(_)
stripTrailingSlashes(s) ==
    IF s # <<>> /\ s[Len(s)] = "/"
    THEN stripTrailingSlashes(Take(s, Len(s) - 1)) ELSE s

\* The longest prefix of s without a "/": what a greedy [^/]+ consumes.
RECURSIVE NonSlashRun(_)
NonSlashRun(s) ==
    IF s = <<>> \/ Head(s) = "/" THEN <<>>
    ELSE <<Head(s)>> \o NonSlashRun(Tail(s))

S_http == <<"h", "t", "t", "p">>
S_colonSlashes == <<":", "/", "/">>
S_www == <<"w", "w", "w", ".">>
S_githubCom == <<"g", "i", "t", "h", "u", "b", ".", "c", "o", "m", "/">>
S_dotGit == <<".", "g", "i", "t">>

----------------------------------------------------------------------------
(* parseGitHubUrl, src/server/routes.ts *)

NoMatch == [matched |-> FALSE, owner |-> <<>>, repo |-> <<>>]

\* ([^/]+)\/([^/]+) matched at the start of t; with `anchored`, followed by $.
MatchOwnerRepo(t, anchored) ==
    LET o == NonSlashRun(t)
        afterO == Drop(t, Len(o))
    IN  IF o = <<>> \/ afterO = <<>> THEN NoMatch
        ELSE LET rest == Tail(afterO)
                 r == NonSlashRun(rest)
             IN  IF r = <<>> THEN NoMatch
                 ELSE IF anchored /\ Len(r) # Len(rest) THEN NoMatch
                 ELSE [matched |-> TRUE, owner |-> o, repo |-> r]

\* /^https?:\/\/(www\.)?github\.com\/([^/]+)\/([^/]+)/
MatchHttpPattern(s) ==
    IF ~StartsWith(s, S_http) THEN NoMatch
    ELSE LET a == Drop(s, Len(S_http))
             b == IF StartsWith(a, <<"s">>) THEN Tail(a) ELSE a
         IN  IF ~StartsWith(b, S_colonSlashes) THEN NoMatch
             ELSE LET c == Drop(b, Len(S_colonSlashes))
                      d == IF StartsWith(c, S_www) THEN Drop(c, Len(S_www)) ELSE c
                  IN  IF ~StartsWith(d, S_githubCom) THEN NoMatch
                      ELSE MatchOwnerRepo(Drop(d, Len(S_githubCom)), FALSE)

\* /^github\.com\/([^/]+)\/([^/]+)/
MatchHostPattern(s) ==
    IF ~StartsWith(s, S_githubCom) THEN NoMatch
    ELSE MatchOwnerRepo(Drop(s, Len(S_githubCom)), FALSE)

\* /^([^/]+)\/([^/]+)$/
MatchBarePattern(s) == MatchOwnerRepo(s, TRUE)

patterns(s) == <<MatchHttpPattern(s), MatchHostPattern(s), MatchBarePattern(s)>>

NullParse == [ok |-> FALSE, owner |-> <<>>, repo |-> <<>>]

\* match[match.length - 1].replace(/\.git$/, "")
stripDotGit(r) == IF EndsWith(r, S_dotGit) THEN Take(r, Len(r) - Len(S_dotGit)) ELSE r

acceptOwnerRepo_anyOwner(owner, repo) == owner # <<>> /\ repo # <<>>

\* if (owner && repo && !owner.includes("."))
acceptOwnerRepo(owner, repo) ==
    owner # <<>> /\ repo # <<>> /\ ~Includes(owner, ".")

RECURSIVE parseFrom(_, _)
parseFrom(ms, k) ==
    IF k > Len(ms) THEN NullParse
    ELSE IF ms[k].matched /\ acceptOwnerRepo(ms[k].owner, stripDotGit(ms[k].repo))
         THEN [ok |-> TRUE, owner |-> ms[k].owner, repo |-> stripDotGit(ms[k].repo)]
         ELSE parseFrom(ms, k + 1)

parseGitHubUrl(url) == parseFrom(patterns(stripTrailingSlashes(trim(url))), 1)

----------------------------------------------------------------------------
(* parseGitHubUrl of the Worker, src/worker/index.ts *)

\* /^github\.com\/([^/]+)\/([^/]+)$/
worker_MatchHostPattern(s) ==
    IF ~StartsWith(s, S_githubCom) THEN NoMatch
    ELSE MatchOwnerRepo(Drop(s, Len(S_githubCom)), TRUE)

worker_patterns(s) ==
    <<MatchHttpPattern(s), worker_MatchHostPattern(s), MatchBarePattern(s)>>

worker_parseGitHubUrl(url) ==
    parseFrom(worker_patterns(stripTrailingSlashes(trim(url))), 1)

----------------------------------------------------------------------------
(* The GitHub client: fetchFileContent and fetchKeyFiles *)

\* The client pages' form validation (home.tsx, generate-docs.tsx).
\* [a-zA-Z0-9_.-]
ClientNameChars ==
    {"a", "b", "c", "d", "e", "f", "g", "h", "i", "j", "k", "l", "m",
     "n", "o", "p", "q", "r", "s", "t", "u", "v", "w", "x", "y", "z",
     "A", "B", "C", "D", "E", "F", "G", "H", "I", "J", "K", "L", "M",
     "N", "O", "P", "Q", "R", "S", "T", "U", "V", "W", "X", "Y", "Z",
     "0", "1", "2", "3", "4", "5", "6", "7", "8", "9", "_", ".", "-"}

\* The longest prefix of s made of characters of the class.
RECURSIVE ClientNameRun(_)
ClientNameRun(s) ==
    IF s # <<>> /\ s[1] \in ClientNameChars THEN <<s[1]>> \o ClientNameRun(Drop(s, 1)) ELSE <<>>

\* s without p at its start when it starts with p: an optional group.
dropOptional(s, p) == IF StartsWith(s, p) THEN Drop(s, Len(p)) ELSE s

dropScheme(s) ==
    IF StartsWith(s, S_http \o <<"s">> \o S_colonSlashes)
    THEN Drop(s, Len(S_http) + 1 + Len(S_colonSlashes))
    ELSE dropOptional(s, S_http \o S_colonSlashes)

\* /^(https?:\/\/)?(www\.)?github\.com\/[a-zA-Z0-9_.-]+\/[a-zA-Z0-9_.-]+\/?$/.test(s)
GITHUB_URL_PATTERN(s) ==
    LET afterWww == dropOptional(dropScheme(s), S_www)
        path == Drop(afterWww, Len(S_githubCom))
        owner == ClientNameRun(path)
        afterOwner == Drop(path, Len(owner))
        repo == ClientNameRun(Drop(afterOwner, 1))
        rest == Drop(afterOwner, 1 + Len(repo))
    IN  /\ StartsWith(afterWww, S_githubCom)
        /\ owner # <<>>
        /\ StartsWith(afterOwner, <<"/">>)
        /\ repo # <<>>
        /\ rest \in {<<>>, <<"/">>}

\* validateUrl of the pages: a non-blank value whose trimmed text matches.
validateUrl(value) == trim(value) # <<>> /\ GITHUB_URL_PATTERN(trim(value))



LowerOf ==
    [A |-> "a", B |-> "b", C |-> "c", D |-> "d", E |-> "e", F |-> "f", G |-> "g",
     H |-> "h", I |-> "i", J |-> "j", K |-> "k", L |-> "l", M |-> "m", N |-> "n",
     O |-> "o", P |-> "p", Q |-> "q", R |-> "r", S |-> "s", T |-> "t", U |-> "u",
     V |-> "v", W |-> "w", X |-> "x", Y |-> "y", Z |-> "z"]

Lower(c) == IF c \in DOMAIN LowerOf THEN LowerOf[c] ELSE c

toLowerCase(s) == [i \in 1..Len(s) |-> Lower(s[i])]

\* s.includes(p) for a text p
IncludesText(s, p) ==
    \E i \in 0..(Len(s) - Len(p)) : SubSeq(s, i + 1, i + Len(p)) = p

\* s.split(sep).pop(): what follows the last sep, all of s when it has none.
RECURSIVE LastPiece(_, _)
LastPiece(s, sep) ==
    IF s = <<>> \/ s[Len(s)] = sep THEN <<>>
    ELSE LastPiece(Take(s, Len(s) - 1), sep) \o <<s[Len(s)]>>

Range(f) == {f[i] : i \in DOMAIN f}

Min(a, b) == IF a < b THEN a ELSE b

KEY_FILE_PATTERNS ==
    <<<<"p", "a", "c", "k", "a", "g", "e", ".", "j", "s", "o", "n">>,
      <<"r", "e", "q", "u", "i", "r", "e", "m", "e", "n", "t", "s", ".", "t", "x", "t">>,
      <<"P", "i", "p", "f", "i", "l", "e">>,
      <<"p", "y", "p", "r", "o", "j", "e", "c", "t", ".", "t", "o", "m", "l">>,
      <<"C", "a", "r", "g", "o", ".", "t", "o", "m", "l">>,
      <<"g", "o", ".", "m", "o", "d">>,
      <<"p", "o", "m", ".", "x", "m", "l">>,
      <<"b", "u", "i", "l", "d", ".", "g", "r", "a", "d", "l", "e">>,
      <<"G", "e", "m", "f", "i", "l", "e">>,
      <<"c", "o", "m", "p", "o", "s", "e", "r", ".", "j", "s", "o", "n">>,
      <<".", "e", "n", "v", ".", "e", "x", "a", "m", "p", "l", "e">>,
      <<".", "e", "n", "v", ".", "s", "a", "m", "p", "l", "e">>,
      <<"d", "o", "c", "k", "e", "r", "-", "c", "o", "m", "p", "o", "s", "e", ".", "y", "m", "l">>,
      <<"D", "o", "c", "k", "e", "r", "f", "i", "l", "e">>,
      <<"M", "a", "k", "e", "f", "i", "l", "e">>,
      <<"R", "E", "A", "D", "M", "E", ".", "m", "d">>,
      <<"t", "s", "c", "o", "n", "f", "i", "g", ".", "j", "s", "o", "n">>,
      <<"v", "i", "t", "e", ".", "c", "o", "n", "f", "i", "g", ".", "t", "s">>,
      <<"v", "i", "t", "e", ".", "c", "o", "n", "f", "i", "g", ".", "j", "s">>,
      <<"w", "e", "b", "p", "a", "c", "k", ".", "c", "o", "n", "f", "i", "g", ".", "j", "s">>,
      <<"n", "e", "x", "t", ".", "c", "o", "n", "f", "i", "g", ".", "j", "s">>,
      <<"n", "e", "x", "t", ".", "c", "o", "n", "f", "i", "g", ".", "t", "s">>,
      <<"n", "u", "x", "t", ".", "c", "o", "n", "f", "i", "g", ".", "t", "s">>,
      <<"a", "n", "g", "u", "l", "a", "r", ".", "j", "s", "o", "n">>>>

CODE_EXTENSIONS ==
    <<<<".", "t", "s">>, <<".", "t", "s", "x">>, <<".", "j", "s">>,
      <<".", "j", "s", "x">>, <<".", "p", "y">>, <<".", "g", "o">>,
      <<".", "r", "s">>, <<".", "j", "a", "v", "a">>, <<".", "r", "b">>,
      <<".", "p", "h", "p">>, <<".", "c", "s">>, <<".", "v", "u", "e">>,
      <<".", "s", "v", "e", "l", "t", "e">>>>

ROUTE_PATTERNS ==
    <<<<"r", "o", "u", "t", "e">>, <<"r", "o", "u", "t", "e", "r">>,
      <<"c", "o", "n", "t", "r", "o", "l", "l", "e", "r">>, <<"e", "n", "d", "p", "o", "i", "n", "t">>,
      <<"a", "p", "i">>, <<"h", "a", "n", "d", "l", "e", "r">>,
      <<"m", "i", "d", "d", "l", "e", "w", "a", "r", "e">>, <<"s", "e", "r", "v", "e", "r">>,
      <<"a", "p", "p">>, <<"i", "n", "d", "e", "x">>,
      <<"m", "a", "i", "n">>, <<"u", "r", "l", "s">>,
      <<"v", "i", "e", "w", "s">>>>

\* The names tested one by one in the last condition of the selection loop.
LAYER_PATTERNS ==
    <<<<"p", "a", "g", "e">>, <<"s", "c", "r", "e", "e", "n">>,
      <<"c", "o", "m", "p", "o", "n", "e", "n", "t">>, <<"s", "e", "r", "v", "i", "c", "e">>,
      <<"m", "o", "d", "e", "l">>, <<"s", "c", "h", "e", "m", "a">>,
      <<"d", "a", "t", "a", "b", "a", "s", "e">>, <<"d", "b">>,
      <<"a", "u", "t", "h">>, <<"c", "o", "n", "f", "i", "g">>>>


\* The body of the selection loop: whether `file` is pushed to filesToFetch.
isKeyFile(file) ==
    LET fileName == LastPiece(file, "/")
        fileLower == toLowerCase(file)
        ext == <<".">> \o LastPiece(fileName, ".")
    IN  \/ \E p \in Range(KEY_FILE_PATTERNS) : fileName = p \/ EndsWith(fileLower, p)
        \/ /\ ext \in Range(CODE_EXTENSIONS)
           /\ \/ \E p \in Range(ROUTE_PATTERNS) :
                    IncludesText(fileLower, p) \/ IncludesText(toLowerCase(fileName), p)
              \/ \E p \in Range(LAYER_PATTERNS) : IncludesText(fileLower, p)

filesToFetch(allFiles) == SelectSeq(allFiles, isKeyFile)

MaxKeyFiles == 60
batchSize == 10
MaxContentLen == 3000

\* filesToFetch.slice(0, 60)
limitedFiles(allFiles) ==
    Take(filesToFetch(allFiles), Min(MaxKeyFiles, Len(filesToFetch(allFiles))))

\* A file's text: the text stored at `src`, of which the first `len` characters.
NoContent == [src |-> <<>>, len |-> 0]

\* content.slice(0, 3000)
truncate(content) == [content EXCEPT !.len = Min(@, MaxContentLen)]

batchAt_unbatched(i, n) == (i + 1)..n

\* limitedFiles.slice(i, i + batchSize), as positions of limitedFiles (from 1)
batchAt(i, n) == (i + 1)..Min(i + batchSize, n)

\* What the async callback of batch.map returns for position p of `files`.
fileResult(files, p, failPos) ==
    [path |-> files[p],
     content |-> truncate(IF p = failPos THEN NoContent
                          ELSE [src |-> files[p],
                                len |-> IF Len(files[p]) % 2 = 0 THEN 100 ELSE 5000])]

\* What fetchKeyFiles returns when no fetch rejects.
fetchKeyFiles(allFiles, failPos) ==
    [p \in 1..Len(limitedFiles(allFiles)) |-> fileResult(limitedFiles(allFiles), p, failPos)]

----------------------------------------------------------------------------
(* The LLM client, src/server/gemini.ts. A model response is a sequence of *)
(* lexemes: "{" "}" "," and white space as themselves; one letter for one  *)
(* complete member: "e" for "apiEndpoints": [...], "t" for "techStack":     *)
(* {...}, "d" for "databaseMapping": {...}, "r" for "repoInfo": {...}; "n"  *)
(* for the literal null, "F" for a ``` fence, "j" for the word json after   *)
(* it, "x" for any other text.                                              *)

JsonMembers == {"e", "t", "d", "r"}

S_fence == <<"F">>
S_fenceJson == <<"F", "j">>

isJsonSpace(c) == c \in Whitespace

notJsonSpace(c) == c \notin Whitespace

\* text.replace(/,\s*([}\]])/g, "$1"): a comma, and the white space after it,
\* is dropped when a closing brace follows.
RECURSIVE dropTrailingCommas(_)
dropTrailingCommas(s) ==
    IF s = <<>> THEN <<>>
    ELSE IF Head(s) = "," /\ trimStart(Tail(s)) # <<>> /\ Head(trimStart(Tail(s))) = "}"
         THEN dropTrailingCommas(trimStart(Tail(s)))
         ELSE <<Head(s)>> \o dropTrailingCommas(Tail(s))

sanitizeJSON(raw) ==
    LET t0 == trim(raw)
        t1 == IF StartsWith(t0, S_fenceJson) THEN Drop(t0, Len(S_fenceJson))
              ELSE IF StartsWith(t0, S_fence) THEN Drop(t0, Len(S_fence))
              ELSE t0
        t2 == IF EndsWith(t1, S_fence) THEN Take(t1, Len(t1) - Len(S_fence)) ELSE t1
    IN  dropTrailingCommas(trim(t2))

JsonFails == [ok |-> FALSE, isNull |-> FALSE, members |-> {}]

\* JSON.parse: the value parsed, or a SyntaxError.
JSONparse(text) ==
    LET t == SelectSeq(text, notJsonSpace)
        inner == SubSeq(t, 2, Len(t) - 1)
    IN  IF t = <<"n">> THEN [ok |-> TRUE, isNull |-> TRUE, members |-> {}]
        ELSE IF /\ Len(t) >= 2 /\ t[1] = "{" /\ t[Len(t)] = "}"
                /\ (inner = <<>> \/ Len(inner) % 2 = 1)
                /\ \A i \in 1..Len(inner) :
                      IF i % 2 = 1 THEN inner[i] \in JsonMembers ELSE inner[i] = ","
             THEN [ok |-> TRUE, isNull |-> FALSE, members |-> Range(inner) \ {","}]
             ELSE JsonFails

\* rawText.match(/\{[\s\S]*\}/): from the first "{" to the last "}".
partialMatch(text) ==
    LET opens == {i \in 1..Len(text) : text[i] = "{"}
        closes == {i \in 1..Len(text) : text[i] = "}"}
        first == CHOOSE i \in opens : \A k \in opens : i <= k
        last == CHOOSE i \in closes : \A k \in closes : k <= i
    IN  IF opens # {} /\ closes # {} /\ first < last
        THEN [found |-> TRUE, text |-> SubSeq(text, first, last)]
        ELSE [found |-> FALSE, text |-> <<>>]

TooLargeMessage ==
    "The repository is too large for a complete analysis. Try analyzing a smaller repository or specific components."

onUnparseable_skeleton(rawText) ==
    [ok |-> TRUE, error |-> "", parsed |-> [ok |-> TRUE, isNull |-> FALSE, members |-> {}]]

\* What the parse stage does on a text all three attempts fail on: it throws.
onUnparseable(rawText) == [ok |-> FALSE, error |-> TooLargeMessage, parsed |-> JsonFails]

\* The try/catch cascade: JSON.parse(rawText), JSON.parse(sanitizeJSON(rawText)),
\* JSON.parse of the partial match, else throw.
parseModelText(rawText) ==
    IF JSONparse(rawText).ok
    THEN [ok |-> TRUE, error |-> "", parsed |-> JSONparse(rawText)]
    ELSE IF JSONparse(sanitizeJSON(rawText)).ok
    THEN [ok |-> TRUE, error |-> "", parsed |-> JSONparse(sanitizeJSON(rawText))]
    ELSE IF partialMatch(rawText).found /\ JSONparse(partialMatch(rawText).text).ok
    THEN [ok |-> TRUE, error |-> "", parsed |-> JSONparse(partialMatch(rawText).text)]
    ELSE onUnparseable(rawText)

NoRepoInfo == [name |-> <<>>, owner |-> <<>>]

\* databaseMapping when the response has none.
DefaultDatabaseMapping ==
    [database |-> "None", orm |-> "None", models |-> <<>>, services |-> <<>>]

NoAnalysis ==
    [repoInfo |-> NoRepoInfo, languages |-> <<>>, frameworks |-> <<>>, apiEndpoints |-> <<>>,
     databaseMapping |-> DefaultDatabaseMapping, fields |-> {},
     readmeArchitecture |-> <<>>, mermaidDiagram |-> <<>>]

\* What the model reports in the members its response has.
ModelLanguages == <<"ModelLang">>
ModelFrameworks == <<"ModelFramework">>
ModelEndpoints == <<"GET /api/model">>
ModelDatabaseMapping ==
    [database |-> "PostgreSQL", orm |-> "Drizzle", models |-> <<"ModelTable">>,
     services |-> <<>>]

\* The object analyzeRepository returns. frameworks stands for the lists of
\* techStack (parsed.techStack?.x || []), apiEndpoints for the top-level lists
\* (parsed.x || []).
buildAnalysis(repoInfo, languages, parsed) ==
    [repoInfo |-> repoInfo,
     languages |-> IF Len(languages) > 0 THEN languages
                   ELSE IF "t" \in parsed.members THEN ModelLanguages ELSE <<>>,
     frameworks |-> IF "t" \in parsed.members THEN ModelFrameworks ELSE <<>>,
     apiEndpoints |-> IF "e" \in parsed.members THEN ModelEndpoints ELSE <<>>,
     databaseMapping |-> IF "d" \in parsed.members THEN ModelDatabaseMapping
                         ELSE DefaultDatabaseMapping,
     fields |-> parsed.members,
     readmeArchitecture |-> <<>>,
     mermaidDiagram |-> <<>>]

RetryMinFiles == 5

\* response.candidates?.[0]?.finishReason === "MAX_TOKENS" && keyFiles.length > 5
retries(first, keyFiles) ==
    first.kind = "response" /\ first.finishReason = "MAX_TOKENS"
    /\ Len(keyFiles) > RetryMinFiles

\* analyzeRepository, given what the model answers to the first call and to
\* the second: the value returned or the error thrown, and the calls made.
analyzeRepository(repoInfo, fileTree, keyFiles, languages, first, second) ==
    LET response == IF retries(first, keyFiles) THEN second ELSE first
        calls == IF retries(first, keyFiles) THEN 2 ELSE 1
        rawText == IF response.text = <<>> THEN <<"{", "}">> ELSE response.text
        p == parseModelText(rawText)
    IN  IF first.kind = "error"
        THEN [ok |-> FALSE, error |-> first.error, value |-> NoAnalysis, modelCalls |-> 1,
              rawText |-> <<>>]
        ELSE IF response.kind = "error"
        THEN [ok |-> FALSE, error |-> response.error, value |-> NoAnalysis, modelCalls |-> calls,
              rawText |-> <<>>]
        ELSE IF ~p.ok
        THEN [ok |-> FALSE, error |-> p.error, value |-> NoAnalysis, modelCalls |-> calls,
              rawText |-> rawText]
        ELSE IF p.parsed.isNull
        THEN [ok |-> FALSE, error |-> "Cannot read properties of null",
              value |-> NoAnalysis, modelCalls |-> calls,
              rawText |-> rawText]
        ELSE [ok |-> TRUE, error |-> "",
              value |-> buildAnalysis(repoInfo, languages, p.parsed), modelCalls |-> calls,
              rawText |-> rawText]

----------------------------------------------------------------------------
(* Auth helpers, src/server/auth.ts *)

\* bcrypt.hash(password, 10)
hashPassword(password) == [bcrypt |-> password]

comparePassword_always(password, hash) == TRUE

\* bcrypt.compare(password, hash)
comparePassword(password, hash) == hash = [bcrypt |-> password]

NoUser == [userId |-> 0, username |-> ""]

\* jwt.sign(payload, JWT_SECRET): the payload under the server's signature.
signToken(payload) == [payload |-> payload, signedBy |-> "JWT_SECRET"]

NoToken == [payload |-> NoUser, signedBy |-> ""]

\* jwt.verify(token, JWT_SECRET): the payload, or null.
verifyToken(token) == IF token.signedBy = "JWT_SECRET" THEN token.payload ELSE NoUser

optionalAuthMiddleware_trusting(header) ==
    IF header.scheme = "Bearer" THEN header.token.payload ELSE NoUser

\* optionalAuthMiddleware: req.user after it ran on a request with this header.
optionalAuthMiddleware(header) ==
    IF header.scheme = "Bearer" THEN verifyToken(header.token) ELSE NoUser

NoHeader == [scheme |-> "none", token |-> NoToken]

----------------------------------------------------------------------------
(* Storage: the tables of the schema and DatabaseStorage, src/server/auth.ts *)

\* pgTable("analyses", {...})
analysesColumns == {"id", "repoUrl", "owner", "repo", "analysisData", "createdAt"}

\* insert(analyses).values(insertAnalysis).returning(): the row has the
\* table's columns; a key of the values that names no column is not stored.
analysisRow(values, id, createdAt) ==
    [c \in analysesColumns |->
        IF c = "id" THEN id ELSE IF c = "createdAt" THEN createdAt ELSE values[c]]

NoRow ==
    [c \in analysesColumns |->
        IF c \in {"id", "createdAt"} THEN 0
        ELSE IF c = "analysisData" THEN NoAnalysis
        ELSE IF c = "repoUrl" THEN "none" ELSE <<>>]

getAnalysisByRepo_anyMatching(rows, owner, repo) ==
    {a \in rows : a.owner = owner /\ a.repo = repo}

\* getAnalysisByRepo: where owner and repo match, orderBy(desc(createdAt)),
\* limit(1). The rows it may return: any row of the greatest createdAt.
getAnalysisByRepo(rows, owner, repo) ==
    LET matching == {a \in rows : a.owner = owner /\ a.repo = repo}
    IN  {a \in matching : \A b \in matching : b.createdAt <= a.createdAt}

getAnalysis_anyRow(rows, id) == rows

\* getAnalysis: where id matches.
getAnalysis(rows, id) == {a \in rows : a.id = id}

\* getAnalysesByUser: where(eq(analyses.userId, userId)). The query names a
\* column; on a table without that column it has no rows to give and fails.
getAnalysesByUser(rows, userId) ==
    IF "userId" \in analysesColumns
    THEN [ok |-> TRUE, rows |-> {a \in rows : a["userId"] = userId}]
    ELSE [ok |-> FALSE, rows |-> {}]

getUser(userRows, id) == {u \in userRows : u.id = id}

getUserByUsername(userRows, username) == {u \in userRows : u.username = username}

\* CURRENT_TIMESTAMP of a new row: not before any stored row's.
latestCreatedAt(rows) ==
    IF rows = {} THEN 0
    ELSE CHOOSE t \in {a.createdAt : a \in rows} : \A a \in rows : a.createdAt <= t

----------------------------------------------------------------------------
(* authMiddleware, src/server/auth.ts *)

authMiddleware_anyToken(header, userRows) ==
    IF header.scheme # "Bearer"
    THEN [pass |-> FALSE, status |-> 401, error |-> "Authentication required", user |-> NoUser]
    ELSE [pass |-> TRUE, status |-> 0, error |-> "", user |-> header.token.payload]

\* What authMiddleware does with a request: answers 401, or sets req.user and
\* calls next().
authMiddleware(header, userRows) ==
    IF header.scheme # "Bearer"
    THEN [pass |-> FALSE, status |-> 401, error |-> "Authentication required", user |-> NoUser]
    ELSE IF verifyToken(header.token) = NoUser
    THEN [pass |-> FALSE, status |-> 401, error |-> "Invalid or expired token", user |-> NoUser]
    ELSE IF getUser(userRows, verifyToken(header.token).userId) = {}
    THEN [pass |-> FALSE, status |-> 401, error |-> "User not found", user |-> NoUser]
    ELSE [pass |-> TRUE, status |-> 0, error |-> "", user |-> verifyToken(header.token)]
----------------------------------------------------------------------------
(* The prompts of analyzeRepository, src/server/gemini.ts. A prompt is a   *)
(* sequence of pieces of text; the pieces the retry's regular expression    *)
(* and replacement string look for are pieces of their own.                 *)

S_keyFilesHeading == "KEY FILES:"
S_provide == "Provide a detailed"
S_matched == "$&"
S_endFile == "--- END FILE ---"

\* `--- FILE: ${f.path} ---` for the key files f1, f2, ...
FileHeader ==
    << "--- FILE: f1 ---", "--- FILE: f2 ---", "--- FILE: f3 ---", "--- FILE: f4 ---",
       "--- FILE: f5 ---", "--- FILE: f6 ---", "--- FILE: f7 ---", "--- FILE: f8 ---",
       "--- FILE: f9 ---", "--- FILE: f10 ---" >>

\* keyFiles.map(f => `--- FILE: ${f.path} ---\n${f.content}\n--- END FILE ---`).join("\n\n")
RECURSIVE keyFilesStr(_)
keyFilesStr(keyFiles) ==
    IF keyFiles = <<>> THEN <<>>
    ELSE <<FileHeader[Head(keyFiles).path]>> \o Head(keyFiles).content \o <<S_endFile>>
         \o keyFilesStr(Tail(keyFiles))

\* The template: the repository's description and file tree, the key files,
\* the structure asked for and the rules.
buildPrompt(keyFiles) ==
    <<"You are a senior software architect ... FILE TREE: ...", S_keyFilesHeading>>
    \o keyFilesStr(keyFiles)
    \o <<S_provide, " JSON analysis with the following structure ... Rules: ...">>

\* /KEY FILES:[\s\S]*?Provide a detailed/: from the first "KEY FILES:" to the
\* first "Provide a detailed" after it.
lazyMatch(prompt) ==
    LET starts == {i \in 1..Len(prompt) : prompt[i] = S_keyFilesHeading}
        from == CHOOSE i \in starts : \A k \in starts : i <= k
        ends == {j \in 1..Len(prompt) : j > from /\ prompt[j] = S_provide}
        to == CHOOSE j \in ends : \A k \in ends : j <= k
    IN  IF starts = {} THEN [found |-> FALSE, from |-> 0, to |-> 0]
        ELSE IF ends = {} THEN [found |-> FALSE, from |-> 0, to |-> 0]
        ELSE [found |-> TRUE, from |-> from, to |-> to]

\* String.prototype.replace with a replacement string: each $& in it stands
\* for the matched text.
RECURSIVE expandReplacement(_, _)
expandReplacement(replacement, matched) ==
    IF replacement = <<>> THEN <<>>
    ELSE (IF Head(replacement) = S_matched THEN matched ELSE <<Head(replacement)>>)
         \o expandReplacement(Tail(replacement), matched)

\* prompt.replace(/KEY FILES:[\s\S]*?Provide a detailed/, replacement)
replaceKeyFiles(prompt, replacement) ==
    LET m == lazyMatch(prompt)
    IN  IF ~m.found THEN prompt
        ELSE Take(prompt, m.from - 1)
             \o expandReplacement(replacement, SubSeq(prompt, m.from, m.to))
             \o Drop(prompt, m.to)

\* keyFiles.slice(0, Math.ceil(keyFiles.length / 2))
reducedKeyFiles(keyFiles) == Take(keyFiles, (Len(keyFiles) + 1) \div 2)

\* `KEY FILES:\n${reducedKeyFilesStr}\n\nProvide a detailed`
reducedPrompt(keyFiles) ==
    replaceKeyFiles(buildPrompt(keyFiles),
                    <<S_keyFilesHeading>> \o keyFilesStr(reducedKeyFiles(keyFiles))
                    \o <<S_provide>>)
----------------------------------------------------------------------------
(* The Express routes, src/server/routes.ts. A request in progress holds a *)
(* slot of reqs; pc names the call the handler is awaiting.                 *)

ReqIds == {1, 2}

MaxAnalyses == 2

\* The request bodies' url values.
UrlText ==
    [ bare     |-> <<"a", "/", "b">>,
      httpsGit |-> S_http \o <<"s">> \o S_colonSlashes \o S_githubCom
                   \o <<"a", "/", "b">> \o S_dotGit \o <<"/">>,
      other    |-> <<"a", "/", "c">>,
      dotted   |-> <<"a", ".", "b", "/", "c">>,
      missing  |-> <<>> ]

Urls == DOMAIN UrlText

\* The users of a database that two sign-ups have written.
InitialUsers ==
    { [id |-> 1, username |-> "alice", password |-> hashPassword("secret1")],
      [id |-> 2, username |-> "bob", password |-> hashPassword("secret2")] }

payloadOf(u) == [userId |-> u.id, username |-> u.username]

\* A user whose row is no longer stored, holding a token issued before.
FormerUser == [id |-> 9, username |-> "carol", password |-> hashPassword("secret9")]

\* The Authorization headers a client sends: none, a token the server issued,
\* a token it did not sign, another scheme, a token issued to a former user.
Headers ==
    {[scheme |-> "none", token |-> NoToken]}
    \cup {[scheme |-> "Bearer", token |-> signToken(payloadOf(FormerUser))]}
    \cup {[scheme |-> "Bearer", token |-> signToken(payloadOf(u))] : u \in users}
    \cup {[scheme |-> "Bearer",
           token |-> [payload |-> payloadOf(u), signedBy |-> "other"]] : u \in users}
    \cup {[scheme |-> "Basic", token |-> NoToken]}

\* The requests to /api/analyze: each url with forceRefresh unset, one with it
\* set; sent by an anonymous client, by the first user, signed in, or with a
\* token in the first user's name that the server did not sign.
AnalyzeBodies ==
    {[url |-> u, forceRefresh |-> FALSE] : u \in Urls}
    \cup {[url |-> "bare", forceRefresh |-> TRUE]}

AnalyzeHeaders ==
    {h \in Headers : h.scheme = "none" \/ h.token.payload.userId = 1}

\* What GitHub holds: repository a/b and repository a/c.
RepoInfoOf(owner, repo) == [name |-> repo, owner |-> owner]

RepoTreeOf(owner, repo) ==
    IF repo = <<"b">>
    THEN << <<"g", "o", ".", "m", "o", "d">>,
            <<"a", "p", "p", ".", "t", "s">>,
            <<"x", ".", "p", "n", "g">>,
            <<"d", "b", ".", "p", "y">>,
            <<"a", "p", "i", ".", "j", "s">>,
            <<"m", "a", "i", "n", ".", "g", "o">>,
            <<"G", "e", "m", "f", "i", "l", "e">> >>
    ELSE << <<"g", "o", ".", "m", "o", "d">>, <<"x", ".", "p", "n", "g">> >>

\* fetchLanguages returns the languages sorted by bytes; [] for a repository
\* GitHub detects none in.
LanguagesOf(owner, repo) == IF repo = <<"b">> THEN <<"Go">> ELSE <<>>

\* What the model answers to one generateContent call: a JSON object, one
\* inside fences with a trailing comma, one cut off at the token limit, or an
\* API error.
ModelAnswers ==
    { [kind |-> "response", text |-> <<"{", "e", "}">>, finishReason |-> "STOP", error |-> ""],
      [kind |-> "response", text |-> <<"F", "j", "{", "e", ",", "}", "F">>,
       finishReason |-> "STOP", error |-> ""],
      [kind |-> "response", text |-> <<"{", "e", ",">>, finishReason |-> "MAX_TOKENS",
       error |-> ""],
      [kind |-> "error", text |-> <<>>, finishReason |-> "", error |-> "Unexpected token in JSON"] }

event(step, message) == [step |-> step, message |-> message, id |-> 0, analysis |-> NoAnalysis]

completeEvent(id, analysis) ==
    [step |-> "complete", message |-> <<"Analysis complete!">>, id |-> id,
     analysis |-> analysis]

IdleReq ==
    [kind |-> "none", pc |-> "idle", url |-> "missing", forceRefresh |-> FALSE,
     user |-> NoUser, parsed |-> NullParse, status |-> 0, error |-> "", rows |-> <<>>,
     sse |-> FALSE, events |-> <<>>, ended |-> FALSE, calls |-> <<>>, returned |-> <<>>,
     threw |-> "", cached |-> NoRow, repoInfo |-> NoRepoInfo, fileTree |-> <<>>,
     languages |-> <<>>, keyFiles |-> <<>>, modelText |-> <<>>, analysis |-> NoAnalysis,
     saved |-> NoRow, param |-> <<>>, valid |-> FALSE, auth |-> NoHeader]

\* A new request takes the lowest free slot.
CanStart(r) ==
    /\ reqs[r].pc = "idle"
    /\ \A q \in ReqIds : q < r => reqs[q].pc # "idle"

jsonError_streamed(req, code, error) ==
    [req EXCEPT !.sse = TRUE, !.events = <<event("error", <<error>>)>>, !.pc = "done",
                !.ended = TRUE]

\* res.status(code).json({error})
jsonError(req, code, error) ==
    [req EXCEPT !.status = code, !.error = error, !.pc = "done", !.ended = TRUE]

\* The catch blocks' userMessage.
userMessage(message) ==
    IF message \in {"Unexpected token in JSON"}
    THEN "The AI returned an incomplete response."
    ELSE message

stepOf_filesFirst ==
    [ fetchRepoInfo     |-> "info",
      fetchRepoTree     |-> "tree",
      fetchLanguages    |-> "files",
      fetchKeyFiles     |-> "languages",
      analyzeRepository |-> "analysis",
      createAnalysis    |-> "saving" ]

\* The step of the event sent before each awaited call.
stepOf ==
    [ fetchRepoInfo     |-> "info",
      fetchRepoTree     |-> "tree",
      fetchLanguages    |-> "languages",
      fetchKeyFiles     |-> "files",
      analyzeRepository |-> "analysis",
      createAnalysis    |-> "saving" ]

pipeline ==
    <<"fetchRepoInfo", "fetchRepoTree", "fetchLanguages", "fetchKeyFiles",
      "analyzeRepository", "createAnalysis">>

\* The awaited call has returned or thrown.
resumed(req) == [req EXCEPT !.returned = req.calls]

\* The message of the event sent before each awaited call.
messageOf(req, call) ==
    CASE call = "fetchRepoInfo" -> <<"Fetching repository information...">>
      [] call = "fetchRepoTree" -> <<"Scanning file structure...">>
      [] call = "fetchLanguages" -> <<"Detecting programming languages...">>
      [] call = "fetchKeyFiles" -> <<"Reading", Min(Len(req.fileTree), 60), "key files...">>
      [] call = "analyzeRepository" -> <<"AI is analyzing the codebase architecture...">>
      [] call = "createAnalysis" -> <<"Saving analysis results...">>

\* sendEvent({step, message}) followed by the call the handler then awaits.
proceed(req, call) ==
    [req EXCEPT !.events = Append(@, event(stepOf[call], messageOf(req, call))),
                !.calls = Append(@, call),
                !.pc = call]

fail_continues(req, message) ==
    IF Len(req.calls) < Len(pipeline)
    THEN proceed([resumed(req) EXCEPT !.threw = req.pc], pipeline[Len(req.calls) + 1])
    ELSE [resumed(req) EXCEPT !.events = Append(@, event("error", <<userMessage(message)>>)),
                              !.threw = req.pc, !.ended = TRUE, !.pc = "done"]

fail_open(req, message) ==
    [resumed(req) EXCEPT !.events = Append(@, event("error", <<userMessage(message)>>)),
                         !.threw = req.pc,
                         !.pc = "done"]

\* The inner catch: sendEvent({step: "error", ...}); res.end().
fail(req, message) ==
    [resumed(req) EXCEPT !.events = Append(@, event("error", <<userMessage(message)>>)),
                !.threw = req.pc,
                !.ended = TRUE,
                !.pc = "done"]

\* Rows in flight: handlers that will insert one if nothing fails.
Pending == {q \in ReqIds : reqs[q].kind = "analyze" /\ reqs[q].pc \notin {"idle", "done"}}

skipsCache_never(forceRefresh) == FALSE

\* if (!forceRefresh) { ...cache lookup... }
skipsCache(forceRefresh) == forceRefresh

\* POST /api/analyze from its arrival to the first call of the pipeline: the
\* checks of the request, the SSE headers, and the cache lookup, which reads the
\* rows stored when the request arrives and is taken to answer.
AnalyzeArrives(r, body, header) ==
    /\ CanStart(r)
    /\ LET u == body.url
           force == body.forceRefresh
           req == [IdleReq EXCEPT !.kind = "analyze", !.url = u, !.forceRefresh = force,
                                  !.auth = header,
                                  !.user = optionalAuthMiddleware(header)]
           parsed == parseGitHubUrl(UrlText[u])
           stream == [req EXCEPT !.parsed = parsed, !.sse = TRUE]
           hits == getAnalysisByRepo(analyses, parsed.owner, parsed.repo)
       IN  IF UrlText[u] = <<>>
           THEN reqs' = [reqs EXCEPT ![r] = jsonError(req, 400, "URL is required")]
           ELSE IF ~geminiKey
           THEN reqs' = [reqs EXCEPT ![r] = jsonError(req, 500, "Gemini API key is not configured")]
           ELSE IF ~parsed.ok
           THEN reqs' = [reqs EXCEPT ![r] = jsonError(req, 400, "Invalid GitHub URL")]
           ELSE IF ~skipsCache(force) /\ hits # {}
           THEN \E cached \in hits :
                  reqs' = [reqs EXCEPT ![r] =
                      [stream EXCEPT
                          !.cached = cached,
                          !.events = << event("info", <<"Loading cached analysis...">>),
                                        completeEvent(cached.id, cached.analysisData) >>,
                          !.ended = TRUE,
                          !.pc = "done"]]
           ELSE /\ Cardinality(analyses) + Cardinality(Pending) < MaxAnalyses
                /\ reqs' = [reqs EXCEPT ![r] = proceed(stream, "fetchRepoInfo")]
    /\ UNCHANGED <<geminiKey, analyses, nextId>>

FetchRepoInfoReturns(r) ==
    /\ reqs[r].pc = "fetchRepoInfo"
    /\ \/ reqs' = [reqs EXCEPT ![r] =
              proceed([resumed(@) EXCEPT !.repoInfo = RepoInfoOf(reqs[r].parsed.owner, reqs[r].parsed.repo)],
                      "fetchRepoTree")]
       \/ reqs' = [reqs EXCEPT ![r] = fail(@, "Repository not found")]
    /\ UNCHANGED <<geminiKey, analyses, nextId>>

FetchRepoTreeReturns(r) ==
    /\ reqs[r].pc = "fetchRepoTree"
    /\ \/ reqs' = [reqs EXCEPT ![r] = proceed([resumed(@) EXCEPT
                  !.fileTree = RepoTreeOf(reqs[r].parsed.owner, reqs[r].parsed.repo)],
              "fetchLanguages")]
       \/ reqs' = [reqs EXCEPT ![r] = fail(@, "GitHub API rate limit exceeded")]
    /\ UNCHANGED <<geminiKey, analyses, nextId>>

FetchLanguagesReturns(r) ==
    /\ reqs[r].pc = "fetchLanguages"
    /\ \/ reqs' = [reqs EXCEPT ![r] =
              proceed([resumed(@) EXCEPT
                  !.languages = LanguagesOf(reqs[r].parsed.owner, reqs[r].parsed.repo)],
              "fetchKeyFiles")]
       \/ reqs' = [reqs EXCEPT ![r] = fail(@, "GitHub API rate limit exceeded")]
    /\ UNCHANGED <<geminiKey, analyses, nextId>>

FetchKeyFilesReturns(r) ==
    /\ reqs[r].pc = "fetchKeyFiles"
    /\ \/ reqs' = [reqs EXCEPT ![r] =
              proceed([resumed(@) EXCEPT !.keyFiles = fetchKeyFiles(reqs[r].fileTree, 0)],
                      "analyzeRepository")]
       \/ reqs' = [reqs EXCEPT ![r] = fail(@, "GitHub not connected")]
    /\ UNCHANGED <<geminiKey, analyses, nextId>>

AnalyzeRepositoryReturns(r) ==
    /\ reqs[r].pc = "analyzeRepository"
    /\ \E first \in ModelAnswers, second \in ModelAnswers :
          LET out == analyzeRepository(reqs[r].repoInfo, reqs[r].fileTree,
                                       reqs[r].keyFiles, reqs[r].languages, first, second)
          IN  IF out.ok
              THEN reqs' = [reqs EXCEPT ![r] =
                      proceed([resumed(@) EXCEPT !.analysis = out.value,
                                                 !.modelText = out.rawText],
                              "createAnalysis")]
              ELSE reqs' = [reqs EXCEPT ![r] =
                      fail([@ EXCEPT !.modelText = out.rawText], out.error)]
    /\ UNCHANGED <<geminiKey, analyses, nextId>>

\* The values the handler passes to storage.createAnalysis.
insertValues(req) ==
    [repoUrl |-> req.url, owner |-> req.parsed.owner, repo |-> req.parsed.repo,
     userId |-> req.user.userId, analysisData |-> req.analysis]

CreateAnalysisReturns_storesThenThrows(r) ==
    /\ reqs[r].pc = "createAnalysis"
    /\ analyses' = analyses \cup
          {analysisRow(insertValues(reqs[r]), nextId, latestCreatedAt(analyses) + 1)}
    /\ nextId' = nextId + 1
    /\ reqs' = [reqs EXCEPT ![r] = fail(@, "database error")]
    /\ UNCHANGED geminiKey

CreateAnalysisReturns(r) ==
    /\ reqs[r].pc = "createAnalysis"
    /\ \/ LET ts == latestCreatedAt(analyses) + 1
                saved == analysisRow(insertValues(reqs[r]), nextId, ts)
            IN  /\ analyses' = analyses \cup {saved}
                /\ nextId' = nextId + 1
                /\ reqs' = [reqs EXCEPT ![r] =
                      [resumed(@) EXCEPT !.saved = saved,
                                !.events = Append(@, completeEvent(saved.id, reqs[r].analysis)),
                                !.ended = TRUE,
                                !.pc = "done"]]
       \/ /\ reqs' = [reqs EXCEPT ![r] = fail(@, "database error")]
          /\ UNCHANGED <<analyses, nextId>>
    /\ UNCHANGED geminiKey

\* descending createdAt: the orders the rows may be returned in.
descByCreatedAt(rows) ==
    {s \in [1..Cardinality(rows) -> rows] :
        /\ \A i, j \in DOMAIN s : i # j => s[i] # s[j]
        /\ \A i, j \in DOMAIN s : i < j => s[i].createdAt >= s[j].createdAt}

summary(a) ==
    [id |-> a.id, repoUrl |-> a.repoUrl, owner |-> a.owner, repo |-> a.repo,
     createdAt |-> a.createdAt]

\* GET /api/user/analyses behind authMiddleware.
UserAnalyses(r, header) ==
    /\ CanStart(r)
    /\ LET req == [IdleReq EXCEPT !.kind = "userAnalyses", !.auth = header]
           checked == authMiddleware(header, users)
           payload == checked.user
           found == getAnalysesByUser(analyses, payload.userId)
       IN  IF ~checked.pass
           THEN reqs' = [reqs EXCEPT ![r] = jsonError(req, checked.status, checked.error)]
           ELSE IF ~found.ok
           THEN reqs' = [reqs EXCEPT ![r] =
                    jsonError([req EXCEPT !.user = payload], 500, "database error")]
           ELSE \E s \in descByCreatedAt(found.rows) :
                    reqs' = [reqs EXCEPT ![r] =
                        [req EXCEPT !.user = payload, !.status = 200,
                                    !.rows = [i \in DOMAIN s |-> summary(s[i])],
                                    !.ended = TRUE, !.pc = "done"]]
    /\ UNCHANGED <<geminiKey, analyses, nextId>>

\* The response has been delivered; the slot is free again.
RequestCloses(r) ==
    /\ reqs[r].pc = "done"
    /\ reqs' = [reqs EXCEPT ![r] = IdleReq]
    /\ UNCHANGED <<geminiKey, analyses, nextId>>

ExInit ==
    /\ geminiKey \in BOOLEAN
    /\ users = InitialUsers
    /\ nextUserId = 3
    /\ analyses = {}
    /\ nextId = 1
    /\ reqs = [r \in ReqIds |-> IdleReq]

----------------------------------------------------------------------------
(* Sign-up and sign-in: src/server/routes.ts (Express, users in Postgres)   *)
(* and src/worker/index.ts (Worker, users in the memoryStorage Map).        *)

AuthIds == {1, 2}

\* The request bodies of POST /api/auth/signup and /api/auth/signin.
SignupBodies ==
    { [username |-> "alice", password |-> "secret1"],
      [username |-> "bob", password |-> "hunter22"],
      [username |-> "al", password |-> "secret1"],
      [username |-> "alice", password |-> "four"],
      [username |-> "", password |-> "secret1"],
      [username |-> "alice", password |-> ""] }

SigninBodies ==
    { [username |-> "alice", password |-> "secret1"],
      [username |-> "alice", password |-> "hunter22"],
      [username |-> "bob", password |-> "hunter22"],
      [username |-> "carol", password |-> "secret1"],
      [username |-> "", password |-> "secret1"],
      [username |-> "alice", password |-> ""] }

MinUsernameLen == 3
MinPasswordLen == 6

NoUserRow == [id |-> 0, username |-> "", password |-> hashPassword("")]

IdleAuth ==
    [kind |-> "none", pc |-> "idle", username |-> "", password |-> "", taken |-> FALSE,
     found |-> NoUserRow, hashed |-> hashPassword(""), status |-> 0, error |-> "",
     token |-> NoToken, user |-> NoUser]

AuthCanStart(r) ==
    /\ authReqs[r].pc = "idle"
    /\ \A q \in AuthIds : q < r => authReqs[q].pc # "idle"

\* The users the deployed server stores.
storedUsers == IF variant = "worker" THEN wUsers ELSE users

\* sign(payload, c.env.SESSION_SECRET) in the Worker, signToken in Express.
tokenFor(u) ==
    IF variant = "worker" THEN [payload |-> payloadOf(u), signedBy |-> "SESSION_SECRET"]
    ELSE signToken(payloadOf(u))

authError(req, code, error) == [req EXCEPT !.status = code, !.error = error, !.pc = "done"]

\* res.json({token, user: {id, username}})
authOk(req, u) ==
    [req EXCEPT !.status = 200, !.token = tokenFor(u), !.user = payloadOf(u), !.pc = "done"]

\* The checks of the request body, then: Express awaits
\* storage.getUserByUsername; the Worker looks through memoryStorage.users and
\* awaits hashPassword.
SignupArrives(r, body) ==
    /\ AuthCanStart(r)
    /\ LET req == [IdleAuth EXCEPT
                      !.kind = "signup", !.username = body.username,
                      !.password = body.password,
                      !.taken = getUserByUsername(storedUsers, body.username) # {}]
       IN  authReqs' = [authReqs EXCEPT ![r] =
               IF body.username = "" \/ body.password = ""
               THEN authError(req, 400, "Username and password are required")
               ELSE IF Len(body.username) < MinUsernameLen
               THEN authError(req, 400, "Username must be at least 3 characters")
               ELSE IF Len(body.password) < MinPasswordLen
               THEN authError(req, 400, "Password must be at least 6 characters")
               ELSE IF variant = "express"
               THEN [req EXCEPT !.pc = "getUserByUsername"]
               ELSE IF getUserByUsername(wUsers, body.username) # {}
               THEN authError(req, 409, "Username already taken")
               ELSE [req EXCEPT !.pc = "hashPassword"]]
    /\ UNCHANGED <<variant, users, nextUserId, wUsers, wNextId>>

\* Express: storage.getUserByUsername returns to the sign-up handler.
SignupLookupReturns(r) ==
    /\ authReqs[r].kind = "signup" /\ authReqs[r].pc = "getUserByUsername"
    /\ authReqs' = [authReqs EXCEPT ![r] =
           IF getUserByUsername(users, authReqs[r].username) # {}
           THEN authError(@, 409, "Username already taken")
           ELSE [@ EXCEPT !.pc = "hashPassword"]]
    /\ UNCHANGED <<variant, users, nextUserId, wUsers, wNextId>>

\* hashPassword returns. Express goes on to await storage.createUser; the
\* Worker sets the user in the Map under a new UUID and answers.
HashPasswordReturns(r) ==
    /\ authReqs[r].pc = "hashPassword"
    /\ LET hashed == hashPassword(authReqs[r].password)
           user == [id |-> wNextId, username |-> authReqs[r].username, password |-> hashed]
       IN  IF variant = "express"
           THEN /\ authReqs' = [authReqs EXCEPT ![r] =
                       [@ EXCEPT !.hashed = hashed, !.pc = "createUser"]]
                /\ UNCHANGED <<wUsers, wNextId>>
           ELSE /\ wUsers' = wUsers \cup {user}
                /\ wNextId' = wNextId + 1
                /\ authReqs' = [authReqs EXCEPT ![r] = authOk([@ EXCEPT !.hashed = hashed], user)]
    /\ UNCHANGED <<variant, users, nextUserId>>

\* Express: the insert into users returns the new row, or fails on the unique
\* constraint of username and the catch answers 500.
CreateUserReturns(r) ==
    /\ authReqs[r].pc = "createUser"
    /\ LET user == [id |-> nextUserId, username |-> authReqs[r].username,
                    password |-> authReqs[r].hashed]
       IN  IF getUserByUsername(users, authReqs[r].username) # {}
           THEN /\ authReqs' = [authReqs EXCEPT ![r] =
                       authError(@, 500, "duplicate key value violates unique constraint")]
                /\ UNCHANGED <<users, nextUserId>>
           ELSE /\ users' = users \cup {user}
                /\ nextUserId' = nextUserId + 1
                /\ authReqs' = [authReqs EXCEPT ![r] = authOk(@, user)]
    /\ UNCHANGED <<variant, wUsers, wNextId>>

\* POST /api/auth/signin of the Express server up to its first await.
SigninArrives(r, body) ==
    /\ variant = "express"
    /\ AuthCanStart(r)
    /\ LET req == [IdleAuth EXCEPT !.kind = "signin", !.username = body.username,
                                   !.password = body.password]
       IN  authReqs' = [authReqs EXCEPT ![r] =
               IF body.username = "" \/ body.password = ""
               THEN authError(req, 400, "Username and password are required")
               ELSE [req EXCEPT !.pc = "getUserByUsername"]]
    /\ UNCHANGED <<variant, users, nextUserId, wUsers, wNextId>>

\* storage.getUserByUsername returns to the sign-in handler.
SigninLookupReturns(r) ==
    /\ authReqs[r].kind = "signin" /\ authReqs[r].pc = "getUserByUsername"
    /\ LET rows == getUserByUsername(users, authReqs[r].username)
       IN  IF rows = {}
           THEN authReqs' = [authReqs EXCEPT ![r] =
                    authError(@, 401, "Invalid username or password")]
           ELSE \E u \in rows :
                    authReqs' = [authReqs EXCEPT ![r] =
                        [@ EXCEPT !.found = u, !.pc = "comparePassword"]]
    /\ UNCHANGED <<variant, users, nextUserId, wUsers, wNextId>>

\* comparePassword returns to the sign-in handler.
ComparePasswordReturns(r) ==
    /\ authReqs[r].pc = "comparePassword"
    /\ authReqs' = [authReqs EXCEPT ![r] =
           IF comparePassword(authReqs[r].password, authReqs[r].found.password)
           THEN authOk(@, authReqs[r].found)
           ELSE authError(@, 401, "Invalid username or password")]
    /\ UNCHANGED <<variant, users, nextUserId, wUsers, wNextId>>

AuthRequestCloses(r) ==
    /\ authReqs[r].pc = "done"
    /\ authReqs' = [authReqs EXCEPT ![r] = IdleAuth]
    /\ UNCHANGED <<variant, users, nextUserId, wUsers, wNextId>>

AuthInit ==
    /\ variant \in {"express", "worker"}
    /\ users = {}
    /\ nextUserId = 1
    /\ wUsers = {}
    /\ wNextId = 1
    /\ authReqs = [r \in AuthIds |-> IdleAuth]

----------------------------------------------------------------------------
(* The routes that store nothing: GET /api/analysis/:id and                 *)
(* POST /api/validate-url, src/server/routes.ts.                            *)

DigitValue ==
    [c \in {"0", "1", "2", "3", "4", "5", "6", "7", "8", "9"} |->
        CASE c = "0" -> 0 [] c = "1" -> 1 [] c = "2" -> 2 [] c = "3" -> 3 [] c = "4" -> 4
          [] c = "5" -> 5 [] c = "6" -> 6 [] c = "7" -> 7 [] c = "8" -> 8 [] c = "9" -> 9]

\* The digits a text starts with.
RECURSIVE digitRun(_)
digitRun(s) ==
    IF s # <<>> /\ Head(s) \in DOMAIN DigitValue
    THEN <<Head(s)>> \o digitRun(Tail(s))
    ELSE <<>>

RECURSIVE decimal(_)
decimal(ds) ==
    IF ds = <<>> THEN 0 ELSE 10 * decimal(Take(ds, Len(ds) - 1)) + DigitValue[ds[Len(ds)]]

\* parseInt(text): the number the leading digits spell, after white space;
\* NaN when there is none.
parseInt(text) ==
    LET ds == digitRun(trimStart(text))
    IN  IF ds = <<>> THEN [nan |-> TRUE, value |-> 0]
        ELSE [nan |-> FALSE, value |-> decimal(ds)]

\* The :id path parameters clients send.
IdParams == { <<"1">>, <<"2">>, <<"9">>, <<"0", "2", "x">>, <<"x">> }

\* GET /api/analysis/:id. A query for NaN matches no row or is refused by the
\* database.
GetAnalysis(r, param) ==
    /\ CanStart(r)
    /\ LET req == [IdleReq EXCEPT !.kind = "getAnalysis", !.param = param]
           id == parseInt(param)
           found == getAnalysis(analyses, id.value)
       IN  IF id.nan
           THEN \/ reqs' = [reqs EXCEPT ![r] = jsonError(req, 404, "Analysis not found")]
                \/ reqs' = [reqs EXCEPT ![r] = jsonError(req, 500, "database error")]
           ELSE IF found = {}
           THEN reqs' = [reqs EXCEPT ![r] = jsonError(req, 404, "Analysis not found")]
           ELSE \E a \in found :
                    reqs' = [reqs EXCEPT ![r] =
                        [req EXCEPT !.status = 200,
                                    !.rows = <<[id |-> a.id, analysis |-> a.analysisData]>>,
                                    !.ended = TRUE, !.pc = "done"]]
    /\ UNCHANGED <<geminiKey, analyses, nextId>>

\* POST /api/validate-url up to its fetchRepoInfo call.
ValidateUrlArrives(r, u) ==
    /\ CanStart(r)
    /\ LET req == [IdleReq EXCEPT !.kind = "validateUrl", !.url = u]
           parsed == parseGitHubUrl(UrlText[u])
       IN  IF UrlText[u] = <<>>
           THEN reqs' = [reqs EXCEPT ![r] = jsonError(req, 400, "URL is required")]
           ELSE IF ~parsed.ok
           THEN reqs' = [reqs EXCEPT ![r] = jsonError(req, 400, "Invalid GitHub URL")]
           ELSE reqs' = [reqs EXCEPT ![r] =
                    [req EXCEPT !.parsed = parsed, !.calls = <<"fetchRepoInfo">>,
                                !.pc = "validateUrl"]]
    /\ UNCHANGED <<geminiKey, analyses, nextId>>

validateCatch_rethrow(req, thrown) ==
    [jsonError(resumed(req), 500, thrown) EXCEPT !.threw = thrown]

\* The inner catch of /api/validate-url: 404 whatever was thrown.
validateCatch(req, thrown) ==
    [jsonError(resumed(req), 404,
               <<"Repository not found: ", req.parsed.owner, "/", req.parsed.repo>>)
        EXCEPT !.threw = thrown]

\* Its fetchRepoInfo returns, or throws.
ValidateUrlReturns(r) ==
    /\ reqs[r].pc = "validateUrl"
    /\ \/ reqs' = [reqs EXCEPT ![r] =
              [resumed(@) EXCEPT
                  !.repoInfo = RepoInfoOf(reqs[r].parsed.owner, reqs[r].parsed.repo),
                  !.valid = TRUE, !.status = 200, !.ended = TRUE, !.pc = "done"]]
       \/ \E thrown \in {"Repository not found", "GitHub API rate limit exceeded",
                         "GitHub not connected"} :
              reqs' = [reqs EXCEPT ![r] = validateCatch(@, thrown)]
    /\ UNCHANGED <<geminiKey, analyses, nextId>>

\* GET /api/auth/me behind authMiddleware.
AuthMe(r, header) ==
    /\ CanStart(r)
    /\ LET req == [IdleReq EXCEPT !.kind = "authMe", !.auth = header]
           checked == authMiddleware(header, users)
       IN  IF ~checked.pass
           THEN reqs' = [reqs EXCEPT ![r] = jsonError(req, checked.status, checked.error)]
           ELSE reqs' = [reqs EXCEPT ![r] =
                    [req EXCEPT !.user = checked.user, !.status = 200,
                                !.rows = <<[id |-> checked.user.userId,
                                            username |-> checked.user.username]>>,
                                !.ended = TRUE, !.pc = "done"]]
    /\ UNCHANGED <<geminiKey, analyses, nextId>>
----------------------------------------------------------------------------
(* SpecKeyFiles: one call of fetchKeyFiles, its content fetches completing  *)
(* in any order.                                                            *)

MaxTreeFiles == 72

Digits == <<"0", "1", "2", "3", "4", "5", "6", "7", "8", "9">>

dirName(k) == <<"d", Digits[((k \div 10) % 10) + 1], Digits[(k % 10) + 1]>>

\* File k of a generated tree: every seventh is an image, the others are code.
treeFile(k) ==
    dirName(k) \o (IF k % 7 = 0 THEN <<"/", "l", "o", "g", "o", ".", "p", "n", "g">>
                   ELSE IF k % 2 = 0 THEN <<"/", "a", "p", "p", ".", "t", "s">>
                   ELSE <<"/", "m", "a", "i", "n", ".", "p", "y">>)

treeOfSize(n) == [k \in 1..n |-> treeFile(k)]

KfTreeSizes == {0, 5, 12, 25, MaxTreeFiles}

KfInit ==
    /\ kfPc = "call"
    /\ kfAllFiles \in {treeOfSize(n) : n \in KfTreeSizes}
    /\ kfFailPos \in 0..2
    /\ kfLimited = <<>>
    /\ kfI = 0
    /\ kfInflight = {}
    /\ kfResults = <<>>

\* The selection loop, the slice, and the first turn of the batch loop up to
\* its await: batch.map starts every fetch of the batch.
KfCall ==
    /\ kfPc = "call"
    /\ kfLimited' = limitedFiles(kfAllFiles)
    /\ IF Len(kfLimited') = 0
       THEN kfPc' = "done" /\ kfInflight' = {}
       ELSE kfPc' = "await" /\ kfInflight' = batchAt(0, Len(kfLimited'))
    /\ UNCHANGED <<kfAllFiles, kfFailPos, kfI, kfResults>>

\* One fetchFileContent returns (its text, or "" when the request failed).
KfFetchCompletes(p) ==
    /\ p \in kfInflight
    /\ kfInflight' = kfInflight \ {p}
    /\ UNCHANGED <<kfPc, kfAllFiles, kfFailPos, kfLimited, kfI, kfResults>>

\* One fetchFileContent rejects: getUncachableGitHubClient is called outside
\* its try. Promise.all rejects at once and fetchKeyFiles throws; the other
\* fetches of the batch stay pending.
KfFetchRejects(p) ==
    /\ kfPc = "await"
    /\ p \in kfInflight
    /\ kfInflight' = kfInflight \ {p}
    /\ kfPc' = "threw"
    /\ UNCHANGED <<kfAllFiles, kfFailPos, kfLimited, kfI, kfResults>>

\* Promise.all resolves: results.push(...batchResults), i += batchSize, and
\* the next turn of the loop up to its await, or the return.
KfBatchJoin ==
    /\ kfPc = "await"
    /\ kfInflight = {}
    /\ kfResults' = kfResults \o
          [k \in 1..Cardinality(batchAt(kfI, Len(kfLimited))) |->
              fileResult(kfLimited, kfI + k, kfFailPos)]
    /\ kfI' = kfI + batchSize
    /\ IF kfI' < Len(kfLimited)
       THEN kfPc' = "await" /\ kfInflight' = batchAt(kfI', Len(kfLimited))
       ELSE kfPc' = "done" /\ kfInflight' = {}
    /\ UNCHANGED <<kfAllFiles, kfFailPos, kfLimited>>

----------------------------------------------------------------------------
(* SpecUrl: parseGitHubUrl applied to one input drawn from a bounded set. *)

MaxNameLen == 2
MaxRawLen == 3

NameChars == {"a", "."}
RawChars == {"a", ".", "/", " "}

RECURSIVE SeqsUpTo(_, _)
SeqsUpTo(S, n) ==
    IF n = 0 THEN {<<>>}
    ELSE LET shorter == SeqsUpTo(S, n - 1)
         IN  shorter \cup {<<c>> \o s : c \in S, s \in {t \in shorter : Len(t) = n - 1}}

Names == SeqsUpTo(NameChars, MaxNameLen) \ {<<>>}

\* The textual forms an owner/repo pair is written in.
Schemes ==
    [ https    |-> S_http \o <<"s">> \o S_colonSlashes \o S_githubCom,
      http     |-> S_http \o S_colonSlashes \o S_githubCom,
      httpsWww |-> S_http \o <<"s">> \o S_colonSlashes \o S_www \o S_githubCom,
      host     |-> S_githubCom,
      bare     |-> <<>>,
      wwwHost  |-> S_www \o S_githubCom,
      upper    |-> <<"H", "T", "T", "P", "S">> \o S_colonSlashes \o S_githubCom ]

ClaimedForms == {"https", "http", "httpsWww", "host", "bare"}

Paddings == {<<>>, <<" ">>, <<"\n", " ">>}
Slashes == {<<>>, <<"/">>, <<"/", "/">>}
GitSuffixes == {<<>>, S_dotGit}
Extras == {<<>>, <<"/", "a">>}

FormParts ==
    [kind : {"form"}, pre : Paddings, scheme : DOMAIN Schemes, owner : Names,
     repo : Names, git : GitSuffixes, extra : Extras, slashes : Slashes,
     post : Paddings]

RawParts == [kind : {"raw"}, text : SeqsUpTo(RawChars, MaxRawLen)]

Compose(p) ==
    IF p.kind = "raw" THEN p.text
    ELSE p.pre \o Schemes[p.scheme] \o p.owner \o <<"/">> \o p.repo \o p.git
         \o p.extra \o p.slashes \o p.post

UrlInit ==
    /\ pgPc = "input"
    /\ pgParts \in FormParts \cup RawParts
    /\ pgInput = Compose(pgParts)
    /\ pgResult = NullParse
    /\ pgWorker = NullParse
    /\ pgClient = FALSE

UrlParse ==
    /\ pgPc = "input"
    /\ pgResult' = parseGitHubUrl(pgInput)
    /\ pgWorker' = worker_parseGitHubUrl(pgInput)
    /\ pgClient' = validateUrl(pgInput)
    /\ pgPc' = "parsed"
    /\ UNCHANGED <<pgParts, pgInput>>

----------------------------------------------------------------------------
(* SpecGemini: one call of analyzeRepository, its arguments drawn from a    *)
(* bounded set, the model answering each generateContent call in any way.   *)

MaxPromptFiles == 7

\* Key file contents: code; code that holds the words of the template (the
\* file the prompt is written in is such a file); code that holds "$&".
PlainContent == <<"code">>
SpecialContents ==
    { <<"code", S_provide, "more code">>, <<"code", S_matched, "more code">> }

plainFiles(n) == [k \in 1..n |-> [path |-> k, content |-> PlainContent]]

\* n key files, at most one of them with a special content.
GmKeyFiles ==
    {plainFiles(n) : n \in 0..MaxPromptFiles}
    \cup UNION { {[plainFiles(n) EXCEPT ![k].content = c] :
                      k \in 1..n, c \in SpecialContents} : n \in 1..MaxPromptFiles }

GmTexts ==
    { <<"{", "e", "}">>,
      <<"{", "r", ",", "t", ",", "d", "}">>,
      <<"{", "}">>,
      <<"F", "j", "{", "e", ",", "}", "F">>,
      <<"{", "e", ",">>,
      <<"n">>,
      <<>> }

\* What generateContent answers: a response, finished or cut off at the token
\* limit, or an API error.
GmAnswers ==
    { [kind |-> "response", text |-> t, finishReason |-> f, error |-> ""] :
        t \in GmTexts, f \in {"STOP", "MAX_TOKENS"} }
    \cup { [kind |-> "error", text |-> <<>>, finishReason |-> "", error |-> "503 overloaded"] }

NoResult ==
    [ok |-> FALSE, error |-> "", value |-> NoAnalysis, modelCalls |-> 0, rawText |-> <<>>]

GmInit ==
    /\ gmPc = "call"
    /\ gmArgs \in [repoInfo : {RepoInfoOf(<<"a">>, <<"b">>)},
                   keyFiles : GmKeyFiles,
                   languages : {<<>>, <<"Go">>}]
    /\ gmPrompts = <<>>
    /\ gmResponses = <<>>
    /\ gmOut = NoResult

\* analyzeRepository builds the prompt and awaits generateContent.
GmCall ==
    /\ gmPc = "call"
    /\ gmPrompts' = <<buildPrompt(gmArgs.keyFiles)>>
    /\ gmPc' = "first"
    /\ UNCHANGED <<gmArgs, gmResponses, gmOut>>

\* The rest of analyzeRepository once the last response is in.
GmFinish(first, second) ==
    LET out == analyzeRepository(gmArgs.repoInfo, <<>>, gmArgs.keyFiles, gmArgs.languages,
                                 first, second)
    IN  /\ gmOut' = out
        /\ gmPc' = IF out.ok THEN "returned" ELSE "threw"

\* The first generateContent call answers: retry with the reduced prompt, or
\* go on with this response.
GmFirstReturns(answer) ==
    /\ gmPc = "first"
    /\ gmResponses' = <<answer>>
    /\ IF retries(answer, gmArgs.keyFiles)
       THEN /\ gmPrompts' = Append(gmPrompts, reducedPrompt(gmArgs.keyFiles))
            /\ gmPc' = "second"
            /\ UNCHANGED gmOut
       ELSE /\ GmFinish(answer, answer)
            /\ UNCHANGED gmPrompts
    /\ UNCHANGED gmArgs

\* The second generateContent call answers.
GmSecondReturns(answer) ==
    /\ gmPc = "second"
    /\ gmResponses' = Append(gmResponses, answer)
    /\ GmFinish(gmResponses[1], answer)
    /\ UNCHANGED <<gmArgs, gmPrompts>>
----------------------------------------------------------------------------
(* SpecStream: the analysis page reads one /api/analyze response, whose     *)
(* text reaches reader.read() cut into chunks at any positions.             *)

MaxEvents == 3

S_data == <<"d", "a", "t", "a", ":", " ">>
S_separator == <<"\n", "\n">>

StepNames ==
    [ info     |-> <<"i", "n", "f", "o">>,
      complete |-> <<"c", "o", "m", "p", "l", "e", "t", "e">>,
      error    |-> <<"e", "r", "r", "o", "r">> ]

\* JSON.stringify(data) of sendEvent, as the text of one object.
stringifyStep(data) == <<"{">> \o StepNames[data.step] \o <<"}">>

NoStep == [step |-> "none"]

\* JSON.parse(text): the event, or NoStep when it throws.
parseStep(text) ==
    IF \E s \in DOMAIN StepNames : text = <<"{">> \o StepNames[s] \o <<"}">>
    THEN [step |-> CHOOSE s \in DOMAIN StepNames : text = <<"{">> \o StepNames[s] \o <<"}">>]
    ELSE NoStep

\* sendEvent: res.write(`data: ${JSON.stringify(data)}\n\n`)
sendEvent(data) == S_data \o stringifyStep(data) \o S_separator

RECURSIVE wireOf(_)
wireOf(events) ==
    IF events = <<>> THEN <<>> ELSE sendEvent(Head(events)) \o wireOf(Tail(events))

\* String.prototype.indexOf, from 1; 0 when sep does not occur.
indexOf(s, sep) ==
    IF \E i \in 1..(Len(s) - Len(sep) + 1) : SubSeq(s, i, i + Len(sep) - 1) = sep
    THEN CHOOSE i \in 1..(Len(s) - Len(sep) + 1) :
            /\ SubSeq(s, i, i + Len(sep) - 1) = sep
            /\ \A j \in 1..(i - 1) : SubSeq(s, j, j + Len(sep) - 1) # sep
    ELSE 0

\* String.prototype.split(sep)
RECURSIVE split(_, _)
split(s, sep) ==
    IF indexOf(s, sep) = 0 THEN <<s>>
    ELSE <<Take(s, indexOf(s, sep) - 1)>> \o split(Drop(s, indexOf(s, sep) + Len(sep) - 1), sep)

\* The lines of the parts, in the order the two nested loops visit them.
RECURSIVE linesOf(_)
linesOf(parts) ==
    IF parts = <<>> THEN <<>> ELSE split(Head(parts), <<"\n">>) \o linesOf(Tail(parts))

nextBuffer_discarded(parts) == <<>>

\* buffer = parts.pop() || ""
nextBuffer(parts) == parts[Len(parts)]

\* The loops over parts and lines, from the page state st: each data line
\* that parses is appended to steps; an "error" step returns from runAnalysis.
RECURSIVE processLines(_, _)
processLines(lines, st) ==
    IF lines = <<>> \/ st.returned THEN st
    ELSE LET line == Head(lines)
             data == IF StartsWith(line, S_data) THEN parseStep(Drop(line, Len(S_data)))
                     ELSE NoStep
         IN  IF data = NoStep THEN processLines(Tail(lines), st)
             ELSE processLines(Tail(lines),
                    [steps |-> Append(st.steps, data),
                     returned |-> data.step = "error",
                     analysis |-> st.analysis \/ data.step = "complete"])

StreamEvents == [step : DOMAIN StepNames]

EventSeqs == UNION {[1..n -> StreamEvents] : n \in 0..MaxEvents}

StInit ==
    /\ stPc = "reading"
    /\ stSent \in EventSeqs
    /\ stPos = 0
    /\ stBuffer = <<>>
    /\ stSteps = <<>>
    /\ stAnalysis = FALSE
    /\ stCuts = {}

\* Where a chunk boundary after the first k characters of the text falls.
cutKind(wire, k) ==
    IF k = Len(wire) THEN "end"
    ELSE IF wire[k] = "\n" /\ wire[k + 1] = "\n" THEN "separator"
    ELSE IF wire[k] = "\n" THEN "between"
    ELSE "event"

\* reader.read() resolves with the next n characters, and the loop body runs.
StRead(n) ==
    /\ stPc = "reading"
    /\ n >= 1 /\ stPos + n <= Len(wireOf(stSent))
    /\ LET wire == wireOf(stSent)
           value == SubSeq(wire, stPos + 1, stPos + n)
           parts == split(stBuffer \o value, S_separator)
           st == processLines(linesOf(Take(parts, Len(parts) - 1)),
                              [steps |-> stSteps, returned |-> FALSE, analysis |-> stAnalysis])
       IN  /\ stPos' = stPos + n
           /\ stBuffer' = nextBuffer(parts)
           /\ stSteps' = st.steps
           /\ stAnalysis' = st.analysis
           /\ stPc' = IF st.returned THEN "returned" ELSE "reading"
           /\ stCuts' = stCuts \cup {cutKind(wire, stPos + n)}
    /\ UNCHANGED stSent

\* reader.read() resolves with done: the loop ends, and what is left in the
\* buffer is searched for a "complete" event only.
StDone ==
    /\ stPc = "reading"
    /\ stPos = Len(wireOf(stSent))
    /\ stPc' = "done"
    /\ stAnalysis' =
          (stAnalysis \/
             \E i \in 1..Len(split(stBuffer, <<"\n">>)) :
                LET line == split(stBuffer, <<"\n">>)[i]
                IN  /\ StartsWith(line, S_data)
                    /\ parseStep(Drop(line, Len(S_data))).step = "complete")
    /\ UNCHANGED <<stSent, stPos, stBuffer, stSteps, stCuts>>
----------------------------------------------------------------------------
(* SpecFlow: buildFlowElements applied to one AnalysisResult drawn from a   *)
(* bounded set. Texts are sequences of pieces; a template literal is the    *)
(* concatenation of its pieces.                                             *)

MaxEndpoints == 2
MaxDependencies == 1
MaxFrontendNodes == 8
MaxModelNodes == 6
MaxExternalNodes == 6

\* ep.group || "Other"
groupOf(ep) == IF ep.group = <<>> THEN <<"Other">> ELSE ep.group

groupId(groupName) == <<"group-">> \o groupName

apiId(method, path) == <<"api-">> \o method \o <<"-">> \o path

indexedId(prefix, i) == <<prefix, Digits[i + 1]>>

\* The keys of groupMap, in insertion order.
RECURSIVE groupNames(_, _)
groupNames(eps, seen) ==
    IF eps = <<>> THEN <<>>
    ELSE IF groupOf(Head(eps)) \in seen THEN groupNames(Tail(eps), seen)
    ELSE <<groupOf(Head(eps))>> \o groupNames(Tail(eps), seen \cup {groupOf(Head(eps))})

endpointsOf(eps, groupName) == SelectSeq(eps, LAMBDA ep : groupOf(ep) = groupName)

\* What one turn of groupMap.forEach pushes.
groupNodes(eps, groupName) ==
    <<[id |-> groupId(groupName), label |-> groupName]>> \o
    [k \in 1..Len(endpointsOf(eps, groupName)) |->
        LET ep == endpointsOf(eps, groupName)[k]
        IN  [id |-> apiId(ep.method, ep.path), label |-> ep.method \o <<" ">> \o ep.path]]

groupEdges(eps, groupName) ==
    [k \in 1..Len(endpointsOf(eps, groupName)) |->
        LET ep == endpointsOf(eps, groupName)[k]
        IN  [id |-> <<"edge-group-">> \o groupName \o <<"-">> \o apiId(ep.method, ep.path),
             source |-> groupId(groupName),
             target |-> apiId(ep.method, ep.path)]]

RECURSIVE concatMap(_, _, _)
concatMap(Op(_, _), eps, names) ==
    IF names = <<>> THEN <<>>
    ELSE Op(eps, Head(names)) \o concatMap(Op, eps, Tail(names))

firstN(s, n) == Take(s, Min(n, Len(s)))

idsOf(nodes) == {nodes[k].id : k \in 1..Len(nodes)}

labelsOf(nodes) == {nodes[k].label : k \in 1..Len(nodes)}

frontendNodes(flows) ==
    [i \in 1..Len(firstN(flows, MaxFrontendNodes)) |->
        [id |-> indexedId("frontend-", i - 1), label |-> flows[i].frontendComponent]]

\* The edges of flow i (from 1): one for each call whose api node exists.
frontendEdgesOf(flow, i, apiNodes) ==
    LET calls == SelectSeq(flow.apiCalls,
                           LAMBDA call : apiId(call.method, call.path) \in idsOf(apiNodes))
    IN  [k \in 1..Len(calls) |->
            [id |-> <<"edge-fe-", Digits[i], "-">> \o calls[k].method \o <<"-">> \o calls[k].path,
             source |-> indexedId("frontend-", i - 1),
             target |-> apiId(calls[k].method, calls[k].path)]]

RECURSIVE frontendEdges(_, _, _)
frontendEdges(flows, i, apiNodes) ==
    IF i > Len(firstN(flows, MaxFrontendNodes)) THEN <<>>
    ELSE frontendEdgesOf(flows[i], i, apiNodes) \o frontendEdges(flows, i + 1, apiNodes)

databaseNodes(mapping) ==
    IF Len(mapping.models) = 0 THEN <<>>
    ELSE <<[id |-> <<"database-node">>,
            label |-> mapping.database \o <<" (">> \o mapping.orm \o <<")">>]>> \o
         [i \in 1..Len(firstN(mapping.models, MaxModelNodes)) |->
            [id |-> indexedId("model-", i - 1),
             label |-> mapping.models[i].name \o <<" -> ">> \o mapping.models[i].table]]

databaseEdges(mapping) ==
    [i \in 1..Len(firstN(mapping.models, MaxModelNodes)) |->
        [id |-> <<"edge-db-">> \o indexedId("model-", i - 1),
         source |-> <<"database-node">>,
         target |-> indexedId("model-", i - 1)]]

externalNodes(services) ==
    [i \in 1..Len(firstN(services, MaxExternalNodes)) |->
        [id |-> indexedId("ext-", i - 1),
         label |-> services[i].name \o <<" (">> \o services[i].type \o <<")">>]]

\* The edges of dependencyGraph.forEach: source and target are taken from the
\* dependency when each is the id or the label of some node.
dependencyEdges(deps, nodes) ==
    LET exists(name) == name \in idsOf(nodes) \/ name \in labelsOf(nodes)
        kept == SelectSeq([i \in 1..Len(deps) |-> [i |-> i, dep |-> deps[i]]],
                          LAMBDA e : exists(e.dep.source) /\ exists(e.dep.target))
    IN  [k \in 1..Len(kept) |->
            [id |-> <<"dep-edge-", Digits[kept[k].i]>>,
             source |-> kept[k].dep.source,
             target |-> kept[k].dep.target]]

buildFlowElements(analysis) ==
    LET names == groupNames(analysis.apiEndpoints, {})
        apiNodes == concatMap(groupNodes, analysis.apiEndpoints, names)
        nodes == apiNodes
                 \o frontendNodes(analysis.frontendBackendFlows)
                 \o databaseNodes(analysis.databaseMapping)
                 \o externalNodes(analysis.externalServices)
    IN  [nodes |-> nodes,
         edges |-> concatMap(groupEdges, analysis.apiEndpoints, names)
                   \o frontendEdges(analysis.frontendBackendFlows, 1, apiNodes)
                   \o databaseEdges(analysis.databaseMapping)
                   \o dependencyEdges(analysis.dependencyGraph, nodes)]

\* ---- the analyses tried

FlEndpoints ==
    [method : {<<"GET">>, <<"POST">>}, path : {<<"/a">>}, group : {<<>>, <<"Users">>}]

FlCalls == <<[method |-> <<"GET">>, path |-> <<"/a">>], [method |-> <<"PUT">>, path |-> <<"/a">>]>>

flowsOfSize(n) == [i \in 1..n |-> [frontendComponent |-> <<"Home">>, apiCalls |-> FlCalls]]

modelsOfSize(n) == [i \in 1..n |-> [name |-> <<"User">>, table |-> <<"users">>]]

servicesOfSize(n) == [i \in 1..n |-> [name |-> <<"Stripe">>, type |-> <<"payment">>]]

FlNames == {<<"frontend-", "0">>, <<"Home">>, <<"database-node">>, <<"Redis">>}

FlDependencies == UNION {[1..n -> [source : FlNames, target : FlNames]] : n \in 0..MaxDependencies}

FlAnalyses ==
    [apiEndpoints : UNION {[1..n -> FlEndpoints] : n \in 0..MaxEndpoints},
     frontendBackendFlows : {flowsOfSize(n) : n \in {0, 1, MaxFrontendNodes + 1}},
     databaseMapping : {[database |-> <<"PostgreSQL">>, orm |-> <<"Drizzle">>, models |-> modelsOfSize(n)] :
                            n \in {0, 1, MaxModelNodes + 1}},
     externalServices : {servicesOfSize(n) : n \in {0, 1, MaxExternalNodes + 1}},
     dependencyGraph : FlDependencies]

FlInit ==
    /\ flPc = "call"
    /\ flAnalysis \in FlAnalyses
    /\ flNodes = <<>>
    /\ flEdges = <<>>

FlBuild ==
    /\ flPc = "call"
    /\ flNodes' = buildFlowElements(flAnalysis).nodes
    /\ flEdges' = buildFlowElements(flAnalysis).edges
    /\ flPc' = "built"
    /\ UNCHANGED flAnalysis
----------------------------------------------------------------------------
(* SpecWorker: the Worker's POST /api/analyze, requests interleaving at     *)
(* their awaits.                                                            *)

MaxWorkerAnalyses == 3

WkIds == {1, 2}

JsNull == <<"null">>

\* v || ""
orEmpty(v) == IF v = JsNull THEN <<>> ELSE v

\* What api.github.com/repos/{owner}/{repo} answers: names are matched without
\* regard to case, and the answer carries the repository's own spelling.
WkRepoAnswers(parsed) ==
    [name : {parsed.repo, toLowerCase(parsed.repo)},
     login : {toLowerCase(parsed.owner)},
     description : {JsNull, <<"d">>},
     stargazers_count : {5},
     forks_count : {0},
     language : {JsNull},
     html_url : {<<"u">>}]

WkNoRepo ==
    [name |-> <<>>, login |-> <<>>, description |-> <<>>, stargazers_count |-> 0,
     forks_count |-> 0, language |-> <<>>, html_url |-> <<>>]

WkListFields ==
    {"apiEndpoints", "frontendBackendFlows", "externalServices", "envVariables",
     "apiVersioning", "dependencyGraph", "contributionSuggestions"}

WkNoAnalysis ==
    [kind |-> "none", members |-> {}, repoInfo |-> <<>>, lists |-> <<>>,
     readmeArchitecture |-> <<>>, mermaidDiagram |-> <<>>]

\* The object of the catch block.
worker_skeleton(parsed, repoInfo, analysisText) ==
    [kind |-> "skeleton",
     members |-> {},
     repoInfo |-> [name |-> parsed.repo,
                   owner |-> parsed.owner,
                   description |-> orEmpty(repoInfo.description),
                   stars |-> repoInfo.stargazers_count,
                   forks |-> repoInfo.forks_count,
                   language |-> orEmpty(repoInfo.language),
                   url |-> orEmpty(repoInfo.html_url)],
     lists |-> [f \in WkListFields |-> <<>>],
     readmeArchitecture |-> analysisText,
     mermaidDiagram |-> <<>>]

worker_fallback_throws(parsed, repoInfo, analysisText) ==
    [threw |-> TRUE, analysis |-> WkNoAnalysis]

\* catch { analysis = {...} }
worker_fallback(parsed, repoInfo, analysisText) ==
    [threw |-> FALSE, analysis |-> worker_skeleton(parsed, repoInfo, analysisText)]

\* The try block: the text from the first "{" to the last "}" is parsed; when
\* there is none, or JSON.parse throws, the catch block takes over.
worker_parseAnalysis(parsed, repoInfo, analysisText) ==
    IF partialMatch(analysisText).found /\ JSONparse(partialMatch(analysisText).text).ok
    THEN [threw |-> FALSE,
          analysis |-> [kind |-> "model",
                        members |-> JSONparse(partialMatch(analysisText).text).members,
                        repoInfo |-> <<>>, lists |-> <<>>,
                        readmeArchitecture |-> <<>>, mermaidDiagram |-> <<>>]]
    ELSE worker_fallback(parsed, repoInfo, analysisText)

WkUrls == {<<"a", "/", "b">>, <<"A", "/", "B">>, <<"b">>}

\* callGemini: the text of the first candidate ("" when there is none), or an
\* error for a response that is not ok.
WkTexts ==
    { <<"x", "{", "e", "}", "x">>,
      <<"{", "e", ",">>,
      <<"n">>,
      <<>> }

WkAnswers == [kind : {"text"}, text : WkTexts] \cup {[kind |-> "error", text |-> <<>>]}

WkIdle ==
    [pc |-> "idle", url |-> <<>>, parsed |-> NullParse, status |-> 0, repoInfo |-> WkNoRepo,
     events |-> <<>>, answer |-> "", text |-> <<>>, analysis |-> WkNoAnalysis, id |-> 0]

wkEvent(step) == [step |-> step, id |-> 0, analysis |-> WkNoAnalysis]

WkInit ==
    /\ wkReqs = [r \in WkIds |-> WkIdle]
    /\ wkAnalyses = {}
    /\ wkCounter = 0

\* The handler up to its first await inside the stream callback. Requests are
\* admitted while the counter can stay within MaxWorkerAnalyses.
WkAnalyzeArrives(r, url) ==
    /\ wkReqs[r].pc = "idle"
    /\ wkCounter + Cardinality({q \in WkIds : wkReqs[q].pc \notin {"idle", "done"}}) < MaxWorkerAnalyses
    /\ LET parsed == worker_parseGitHubUrl(url)
       IN  wkReqs' = [wkReqs EXCEPT ![r] =
              IF ~parsed.ok
              THEN [WkIdle EXCEPT !.pc = "done", !.url = url, !.status = 400]
              ELSE [WkIdle EXCEPT !.pc = "fetchRepoInfo", !.url = url, !.parsed = parsed,
                                  !.status = 200, !.events = <<wkEvent("info")>>]]
    /\ UNCHANGED <<wkAnalyses, wkCounter>>

\* An awaited call threw: the catch block writes an error event.
wkFail(req) == [req EXCEPT !.pc = "done", !.events = Append(@, wkEvent("error"))]

WkFetchRepoInfoReturns(r, ok) ==
    /\ wkReqs[r].pc = "fetchRepoInfo"
    /\ \/ /\ ok
          /\ \E info \in WkRepoAnswers(wkReqs[r].parsed) :
                wkReqs' = [wkReqs EXCEPT ![r] =
                    [wkReqs[r] EXCEPT !.repoInfo = info, !.pc = "fetchRepoTree",
                                      !.events = Append(@, wkEvent("tree"))]]
       \/ /\ ~ok
          /\ wkReqs' = [wkReqs EXCEPT ![r] = wkFail(wkReqs[r])]
    /\ UNCHANGED <<wkAnalyses, wkCounter>>

WkFetchRepoTreeReturns(r, ok) ==
    /\ wkReqs[r].pc = "fetchRepoTree"
    /\ wkReqs' = [wkReqs EXCEPT ![r] =
          IF ok THEN [wkReqs[r] EXCEPT !.pc = "fetchLanguages",
                                       !.events = Append(@, wkEvent("languages"))]
          ELSE wkFail(wkReqs[r])]
    /\ UNCHANGED <<wkAnalyses, wkCounter>>

\* fetchLanguages returns; the key files are read (fetchFileContent gives
\* null for a failed request) and the prompt is sent.
WkFetchLanguagesReturns(r, ok) ==
    /\ wkReqs[r].pc = "fetchLanguages"
    /\ wkReqs' = [wkReqs EXCEPT ![r] =
          IF ok THEN [wkReqs[r] EXCEPT !.pc = "callGemini",
                                       !.events = @ \o <<wkEvent("files"), wkEvent("analysis")>>]
          ELSE wkFail(wkReqs[r])]
    /\ UNCHANGED <<wkAnalyses, wkCounter>>

\* callGemini returns: parse, ++analysisCounter, analyses.set, and the
\* complete event, with no await in between.
WkCallGeminiReturns(r, answer) ==
    /\ wkReqs[r].pc = "callGemini"
    /\ LET req == wkReqs[r]
           result == worker_parseAnalysis(req.parsed, req.repoInfo, answer.text)
           id == wkCounter + 1
       IN  IF answer.kind = "error" \/ result.threw
           THEN /\ wkReqs' = [wkReqs EXCEPT ![r] = [wkFail(req) EXCEPT !.answer = answer.kind, !.text = answer.text]]
                /\ UNCHANGED <<wkAnalyses, wkCounter>>
           ELSE /\ wkCounter' = id
                /\ wkAnalyses' = {a \in wkAnalyses : a.id # id} \cup
                      {[id |-> id, repoUrl |-> req.url, owner |-> req.parsed.owner,
                        repo |-> req.parsed.repo, analysisData |-> result.analysis]}
                /\ wkReqs' = [wkReqs EXCEPT ![r] =
                      [req EXCEPT !.pc = "done", !.answer = answer.kind, !.text = answer.text,
                                  !.analysis = result.analysis, !.id = id,
                                  !.events = Append(@, [step |-> "complete", id |-> id,
                                                        analysis |-> result.analysis])]]

\* The response has been read; the client may send another request.
WkRequestCloses(r) ==
    /\ wkReqs[r].pc = "done"
    /\ wkReqs' = [wkReqs EXCEPT ![r] = WkIdle]
    /\ UNCHANGED <<wkAnalyses, wkCounter>>
----------------------------------------------------------------------------
(* Specifications. Each runs one part of the program; the variables of the *)
(* other parts keep their idle values.                                      *)

vars == <<pgVars, kfVars, gmVars, exVars, userVars, authVars, pageVars>>

UrlOff ==
    pgPc = "off" /\ pgParts = [kind |-> "raw", text |-> <<>>] /\ pgInput = <<>>
    /\ pgResult = NullParse /\ pgWorker = NullParse /\ pgClient = FALSE

KfOff ==
    kfPc = "off" /\ kfAllFiles = <<>> /\ kfFailPos = 0 /\ kfLimited = <<>>
    /\ kfI = 0 /\ kfInflight = {} /\ kfResults = <<>>

ExOff == geminiKey = FALSE /\ analyses = {} /\ nextId = 1 /\ reqs = <<>>

UsersOff == users = {} /\ nextUserId = 1

GmOff ==
    gmPc = "off" /\ gmArgs = <<>> /\ gmPrompts = <<>> /\ gmResponses = <<>>
    /\ gmOut = NoResult

StOff ==
    stPc = "off" /\ stSent = <<>> /\ stPos = 0 /\ stBuffer = <<>> /\ stSteps = <<>>
    /\ stAnalysis = FALSE /\ stCuts = {}

FlOff == flPc = "off" /\ flAnalysis = <<>> /\ flNodes = <<>> /\ flEdges = <<>>

WkOff == wkReqs = <<>> /\ wkAnalyses = {} /\ wkCounter = 0

PageOff == StOff /\ FlOff /\ WkOff

AuthOff == variant = "none" /\ wUsers = {} /\ wNextId = 1 /\ authReqs = <<>>

UrlSpecInit == UrlInit /\ KfOff /\ GmOff /\ ExOff /\ UsersOff /\ AuthOff /\ PageOff

SpecUrl ==
    /\ UrlSpecInit
    /\ [][UrlParse /\ UNCHANGED <<kfVars, gmVars, exVars, userVars, authVars, pageVars>>]_vars

KeyFilesNext ==
    \/ KfCall /\ UNCHANGED <<pgVars, gmVars, exVars, userVars, authVars, pageVars>>
    \/ (\E p \in 1..MaxKeyFiles : KfFetchCompletes(p))
          /\ UNCHANGED <<pgVars, gmVars, exVars, userVars, authVars, pageVars>>
    \/ (\E p \in 1..MaxKeyFiles : KfFetchRejects(p))
          /\ UNCHANGED <<pgVars, gmVars, exVars, userVars, authVars, pageVars>>
    \/ KfBatchJoin /\ UNCHANGED <<pgVars, gmVars, exVars, userVars, authVars, pageVars>>

KeyFilesInit == KfInit /\ UrlOff /\ GmOff /\ ExOff /\ UsersOff /\ AuthOff /\ PageOff

SpecKeyFiles ==
    /\ KeyFilesInit
    /\ [][KeyFilesNext]_vars

\* The Express server: requests arrive while others are in progress.
Next ==
    \/ (\E r \in ReqIds, body \in AnalyzeBodies, header \in AnalyzeHeaders :
            AnalyzeArrives(r, body, header))
          /\ UNCHANGED <<pgVars, kfVars, gmVars, userVars, authVars, pageVars>>
    \/ (\E r \in ReqIds : FetchRepoInfoReturns(r))
          /\ UNCHANGED <<pgVars, kfVars, gmVars, userVars, authVars, pageVars>>
    \/ (\E r \in ReqIds : FetchRepoTreeReturns(r))
          /\ UNCHANGED <<pgVars, kfVars, gmVars, userVars, authVars, pageVars>>
    \/ (\E r \in ReqIds : FetchLanguagesReturns(r))
          /\ UNCHANGED <<pgVars, kfVars, gmVars, userVars, authVars, pageVars>>
    \/ (\E r \in ReqIds : FetchKeyFilesReturns(r))
          /\ UNCHANGED <<pgVars, kfVars, gmVars, userVars, authVars, pageVars>>
    \/ (\E r \in ReqIds : AnalyzeRepositoryReturns(r))
          /\ UNCHANGED <<pgVars, kfVars, gmVars, userVars, authVars, pageVars>>
    \/ (\E r \in ReqIds : CreateAnalysisReturns(r))
          /\ UNCHANGED <<pgVars, kfVars, gmVars, userVars, authVars, pageVars>>
    \/ (\E r \in ReqIds, header \in Headers : UserAnalyses(r, header))
          /\ UNCHANGED <<pgVars, kfVars, gmVars, userVars, authVars, pageVars>>
    \/ (\E r \in ReqIds, header \in Headers : AuthMe(r, header))
          /\ UNCHANGED <<pgVars, kfVars, gmVars, userVars, authVars, pageVars>>
    \/ (\E r \in ReqIds, param \in IdParams : GetAnalysis(r, param))
          /\ UNCHANGED <<pgVars, kfVars, gmVars, userVars, authVars, pageVars>>
    \/ (\E r \in ReqIds, u \in Urls : ValidateUrlArrives(r, u))
          /\ UNCHANGED <<pgVars, kfVars, gmVars, userVars, authVars, pageVars>>
    \/ (\E r \in ReqIds : ValidateUrlReturns(r))
          /\ UNCHANGED <<pgVars, kfVars, gmVars, userVars, authVars, pageVars>>
    \/ (\E r \in ReqIds : RequestCloses(r))
          /\ UNCHANGED <<pgVars, kfVars, gmVars, userVars, authVars, pageVars>>

Init == ExInit /\ UrlOff /\ KfOff /\ GmOff /\ AuthOff /\ PageOff

Spec == Init /\ [][Next]_vars

\* The call request r awaits returns or throws.
CallReturns(r) ==
    /\ \/ FetchRepoInfoReturns(r)
       \/ FetchRepoTreeReturns(r)
       \/ FetchLanguagesReturns(r)
       \/ FetchKeyFilesReturns(r)
       \/ AnalyzeRepositoryReturns(r)
       \/ CreateAnalysisReturns(r)
    /\ UNCHANGED <<pgVars, kfVars, gmVars, userVars, authVars, pageVars>>

\* The /api/analyze requests of anonymous clients, when no awaited call stays
\* pending for ever.
FairNext ==
    \/ (\E r \in ReqIds, body \in AnalyzeBodies :
            AnalyzeArrives(r, body, [scheme |-> "none", token |-> NoToken]))
          /\ UNCHANGED <<pgVars, kfVars, gmVars, userVars, authVars, pageVars>>
    \/ \E r \in ReqIds : CallReturns(r)
    \/ (\E r \in ReqIds : RequestCloses(r))
          /\ UNCHANGED <<pgVars, kfVars, gmVars, userVars, authVars, pageVars>>

FairSpec ==
    /\ Init
    /\ [][FairNext]_vars
    /\ \A r \in ReqIds : WF_vars(CallReturns(r))

\* Sign-up and sign-in requests arriving while others are in progress, at the
\* Express server or at the Worker.
AuthNext ==
    \/ (\E r \in AuthIds, body \in SignupBodies : SignupArrives(r, body))
          /\ UNCHANGED <<pgVars, kfVars, gmVars, exVars, pageVars>>
    \/ (\E r \in AuthIds : SignupLookupReturns(r)) /\ UNCHANGED <<pgVars, kfVars, gmVars, exVars, pageVars>>
    \/ (\E r \in AuthIds : HashPasswordReturns(r)) /\ UNCHANGED <<pgVars, kfVars, gmVars, exVars, pageVars>>
    \/ (\E r \in AuthIds : CreateUserReturns(r)) /\ UNCHANGED <<pgVars, kfVars, gmVars, exVars, pageVars>>
    \/ (\E r \in AuthIds, body \in SigninBodies : SigninArrives(r, body))
          /\ UNCHANGED <<pgVars, kfVars, gmVars, exVars, pageVars>>
    \/ (\E r \in AuthIds : SigninLookupReturns(r)) /\ UNCHANGED <<pgVars, kfVars, gmVars, exVars, pageVars>>
    \/ (\E r \in AuthIds : ComparePasswordReturns(r)) /\ UNCHANGED <<pgVars, kfVars, gmVars, exVars, pageVars>>
    \/ (\E r \in AuthIds : AuthRequestCloses(r)) /\ UNCHANGED <<pgVars, kfVars, gmVars, exVars, pageVars>>

AuthSpecInit == AuthInit /\ UrlOff /\ KfOff /\ GmOff /\ ExOff /\ PageOff

SpecAuth == AuthSpecInit /\ [][AuthNext]_vars

\* One call of analyzeRepository.
GeminiNext ==
    \/ GmCall /\ UNCHANGED <<pgVars, kfVars, exVars, userVars, authVars, pageVars>>
    \/ (\E answer \in GmAnswers : GmFirstReturns(answer))
          /\ UNCHANGED <<pgVars, kfVars, exVars, userVars, authVars, pageVars>>
    \/ (\E answer \in GmAnswers : GmSecondReturns(answer))
          /\ UNCHANGED <<pgVars, kfVars, exVars, userVars, authVars, pageVars>>

GeminiInit == GmInit /\ UrlOff /\ KfOff /\ ExOff /\ UsersOff /\ AuthOff /\ PageOff

SpecGemini == GeminiInit /\ [][GeminiNext]_vars

\* The analysis page reading the stream of one analyze request.
StreamNext ==
    \/ (\E n \in 1..Len(wireOf(stSent)) : StRead(n))
          /\ UNCHANGED <<pgVars, kfVars, gmVars, exVars, userVars, authVars, flVars, wkVars>>
    \/ StDone /\ UNCHANGED <<pgVars, kfVars, gmVars, exVars, userVars, authVars, flVars, wkVars>>

StreamInit == StInit /\ FlOff /\ WkOff /\ UrlOff /\ KfOff /\ GmOff /\ ExOff /\ UsersOff /\ AuthOff

SpecStream == StreamInit /\ [][StreamNext]_vars

\* One call of buildFlowElements.
FlowInit == FlInit /\ StOff /\ WkOff /\ UrlOff /\ KfOff /\ GmOff /\ ExOff /\ UsersOff /\ AuthOff

SpecFlow ==
    /\ FlowInit
    /\ [][FlBuild /\ UNCHANGED <<pgVars, kfVars, gmVars, exVars, userVars, authVars, stVars, wkVars>>]_vars

\* The Worker serving analyze requests.
WorkerNext ==
    \/ (\E r \in WkIds, url \in WkUrls : WkAnalyzeArrives(r, url))
          /\ UNCHANGED <<pgVars, kfVars, gmVars, exVars, userVars, authVars, stVars, flVars>>
    \/ (\E r \in WkIds, ok \in BOOLEAN : WkFetchRepoInfoReturns(r, ok))
          /\ UNCHANGED <<pgVars, kfVars, gmVars, exVars, userVars, authVars, stVars, flVars>>
    \/ (\E r \in WkIds, ok \in BOOLEAN : WkFetchRepoTreeReturns(r, ok))
          /\ UNCHANGED <<pgVars, kfVars, gmVars, exVars, userVars, authVars, stVars, flVars>>
    \/ (\E r \in WkIds, ok \in BOOLEAN : WkFetchLanguagesReturns(r, ok))
          /\ UNCHANGED <<pgVars, kfVars, gmVars, exVars, userVars, authVars, stVars, flVars>>
    \/ (\E r \in WkIds, answer \in WkAnswers : WkCallGeminiReturns(r, answer))
          /\ UNCHANGED <<pgVars, kfVars, gmVars, exVars, userVars, authVars, stVars, flVars>>
    \/ (\E r \in WkIds : WkRequestCloses(r))
          /\ UNCHANGED <<pgVars, kfVars, gmVars, exVars, userVars, authVars, stVars, flVars>>

WorkerInit == WkInit /\ StOff /\ FlOff /\ UrlOff /\ KfOff /\ GmOff /\ ExOff /\ UsersOff /\ AuthOff

SpecWorker == WorkerInit /\ [][WorkerNext]_vars
----------------------------------------------------------------------------
(* Claims *)

\* The input is one of the five forms github.com/{owner}/{repo} is written in,
\* with optional padding, trailing slashes and .git suffix, and nothing else.
InClaimedForm ==
    /\ pgParts.kind = "form"
    /\ pgParts.scheme \in ClaimedForms
    /\ pgParts.extra = <<>>

\* A "/" with a non-empty, slash-free text on both sides.
HasOwnerRepoPair(s) ==
    \E i \in 2..(Len(s) - 1) : s[i] = "/" /\ s[i - 1] # "/" /\ s[i + 1] # "/"

\* C6: parseGitHubUrl returns {owner: o, repo: r} for each of the five forms
\* of o/r, also with surrounding whitespace, trailing slashes or a .git suffix
\* on r; it returns null for an input without an owner/repo pair and for one
\* whose extracted owner contains a "."; a returned owner or repo is never
\* empty and never contains "/".
Thm_C6 ==
    pgPc = "parsed" =>
        /\ (InClaimedForm /\ ~Includes(pgParts.owner, "."))
              => pgResult = [ok |-> TRUE, owner |-> pgParts.owner, repo |-> pgParts.repo]
        /\ (pgParts.kind = "form" /\ Includes(pgParts.owner, "."))
              => pgResult = NullParse
        /\ ~HasOwnerRepoPair(stripTrailingSlashes(trim(pgInput)))
              => pgResult = NullParse
        /\ pgResult.ok
              => /\ pgResult.owner # <<>> /\ pgResult.repo # <<>>
                 /\ ~Includes(pgResult.owner, "/") /\ ~Includes(pgResult.repo, "/")
                 /\ ~Includes(pgResult.owner, ".")

Wit_C6 ==
    /\ pgPc = "parsed"
    /\ InClaimedForm
    /\ pgParts.scheme = "httpsWww"
    /\ pgParts.pre # <<>> /\ pgParts.post # <<>>
    /\ pgParts.git = S_dotGit /\ pgParts.slashes = <<"/", "/">>
    /\ pgResult.ok /\ pgResult.owner = pgParts.owner /\ pgResult.repo = pgParts.repo

KfBatchOf(p) == (p - 1) \div 10

\* C7: during one fetchKeyFiles call at most 10 content fetches are pending
\* at any time, and a fetch of a later batch is pending only when every fetch
\* of every earlier batch has completed and been collected.
Thm_C7 ==
    /\ Cardinality(kfInflight) <= 10
    /\ \A p \in kfInflight : \A q \in 1..Len(kfLimited) :
          KfBatchOf(q) < KfBatchOf(p) => q \notin kfInflight /\ q <= Len(kfResults)

Wit_C7 ==
    /\ Cardinality(kfInflight) = 10
    /\ Len(kfResults) = 20
    /\ Len(kfLimited) = 60
    /\ Len(filesToFetch(kfAllFiles)) > 60
\* ---- /api/analyze

IsPrefix(s, t) == Len(s) <= Len(t) /\ SubSeq(t, 1, Len(s)) = s

stepsOf(req) == [i \in DOMAIN req.events |-> req.events[i].step]

lastEvent(req) == req.events[Len(req.events)]

SuccessSteps == <<"info", "tree", "languages", "files", "analysis", "saving", "complete">>

\* The request opened a stream, was not served from the cache, and no call of
\* it has thrown.
OnSuccessPath(req) ==
    req.kind = "analyze" /\ req.sse /\ req.cached = NoRow /\ req.threw = ""

SuccessEvents(req) ==
    OnSuccessPath(req) =>
            /\ IsPrefix(stepsOf(req), SuccessSteps)
            /\ req.returned = pipeline =>
                  /\ stepsOf(req) = SuccessSteps
                  /\ req.saved \in analyses
                  /\ lastEvent(req).id = req.saved.id
                  /\ lastEvent(req).analysis = req.saved.analysisData
                  /\ lastEvent(req).analysis = req.analysis
                  /\ req.saved.owner = req.parsed.owner
                  /\ req.saved.repo = req.parsed.repo

\* C1: an /api/analyze request that passes the checks, is not served from the
\* cache and in which no call throws emits the events info, tree, languages,
\* files, analysis, saving, complete, once each and in this order; its
\* complete event carries the id of the row its createAnalysis stored and the
\* analysis stored in that row.
Thm_C1 ==
    /\ [](\A r \in ReqIds : SuccessEvents(reqs[r]))
    /\ [][\A r \in ReqIds :
            (reqs[r].pc = "createAnalysis" /\ reqs'[r].pc = "done" /\ reqs'[r].threw = "") =>
                \E a \in analyses' \ analyses :
                    /\ analyses' = analyses \cup {a}
                    /\ lastEvent(reqs'[r]).step = "complete"
                    /\ lastEvent(reqs'[r]).id = a.id
                    /\ lastEvent(reqs'[r]).analysis = a.analysisData]_vars

Wit_C1 ==
    \E r \in ReqIds :
        /\ OnSuccessPath(reqs[r]) /\ reqs[r].returned = pipeline
        /\ reqs[r].forceRefresh /\ reqs[r].saved.id = 2
        /\ stepsOf(reqs[r]) = SuccessSteps

\* C2: within one /api/analyze request the calls started are fetchRepoInfo,
\* fetchRepoTree, fetchLanguages, fetchKeyFiles, analyzeRepository,
\* createAnalysis in this order; at most one is pending, the last one started;
\* once one has thrown no later call is started.
Thm_C2 ==
    \A r \in ReqIds :
        reqs[r].kind = "analyze" =>
            /\ IsPrefix(reqs[r].calls, pipeline)
            /\ IsPrefix(reqs[r].returned, reqs[r].calls)
            /\ Len(reqs[r].calls) - Len(reqs[r].returned) \in {0, 1}
            /\ reqs[r].pc \notin {"idle", "done"} <=>
                  Len(reqs[r].calls) = Len(reqs[r].returned) + 1
            /\ reqs[r].pc \notin {"idle", "done"} =>
                  reqs[r].pc = reqs[r].calls[Len(reqs[r].calls)]
            /\ reqs[r].threw # "" =>
                  /\ reqs[r].calls # <<>>
                  /\ reqs[r].threw = reqs[r].calls[Len(reqs[r].calls)]
                  /\ reqs[r].returned = reqs[r].calls
                  /\ reqs[r].pc = "done"

Wit_C2 ==
    \E r \in ReqIds :
        /\ reqs[r].kind = "analyze"
        /\ reqs[r].threw = "fetchLanguages"
        /\ reqs[r].calls = SubSeq(pipeline, 1, 3)

TerminalEvents(req) == {i \in DOMAIN req.events : req.events[i].step \in {"complete", "error"}}

\* An opened stream has at most one terminal event, it is the last event, and
\* the response is ended exactly when it has been sent.
StreamOk(req) ==
    req.sse =>
        /\ Cardinality(TerminalEvents(req)) <= 1
        /\ TerminalEvents(req) \subseteq {Len(req.events)}
        /\ req.ended <=> TerminalEvents(req) # {}

\* C4: every opened /api/analyze stream ends when each awaited call returns
\* or throws; it carries exactly one terminal event, complete or error, never
\* both; that event is its last, and the response is closed with it.
Thm_C4 ==
    /\ [](\A r \in ReqIds : StreamOk(reqs[r]))
    /\ \A r \in ReqIds : (reqs[r].sse /\ ~reqs[r].ended) ~> reqs[r].ended

Wit_C4 ==
    \E r \in ReqIds :
        /\ reqs[r].sse /\ reqs[r].ended
        /\ stepsOf(reqs[r]) = <<"info", "tree", "languages", "files", "analysis", "error">>

\* No attempt of the parse cascade parses the text.
unparseable(text) ==
    /\ ~JSONparse(text).ok
    /\ ~JSONparse(sanitizeJSON(text)).ok
    /\ ~(partialMatch(text).found /\ JSONparse(partialMatch(text).text).ok)

modelAnswered(req) ==
    req.kind = "analyze" /\ Len(req.returned) >= 5 /\ req.modelText # <<>>

\* C5 as the spec states it: when the model's output cannot be parsed, not
\* after sanitizing and not after extracting the outermost {...} span, the LLM
\* client returns a skeleton analysis and the analysis goes on to complete.
Orig_C5 ==
    \A r \in ReqIds :
        (modelAnswered(reqs[r]) /\ unparseable(reqs[r].modelText)) =>
            /\ reqs[r].threw # "analyzeRepository"
            /\ reqs[r].analysis = buildAnalysis(reqs[r].repoInfo, reqs[r].languages,
                                                [ok |-> TRUE, isNull |-> FALSE, members |-> {}])

\* C5 as the code has it: when the model's output cannot be parsed, not after
\* sanitizing and not after extracting the outermost {...} span,
\* analyzeRepository throws; the stream ends with an error event, createAnalysis
\* is not called and nothing is stored for the request. An output that one of
\* the three attempts parses to an object does not make analyzeRepository throw.
Thm_C5 ==
    \A r \in ReqIds :
        modelAnswered(reqs[r]) =>
            IF unparseable(reqs[r].modelText)
            THEN /\ reqs[r].threw = "analyzeRepository"
                 /\ reqs[r].ended
                 /\ lastEvent(reqs[r]) =
                       event("error", <<TooLargeMessage>>)
                 /\ reqs[r].calls = SubSeq(pipeline, 1, 5)
                 /\ reqs[r].saved = NoRow
            ELSE reqs[r].threw # "analyzeRepository"

Wit_C5 ==
    \E r \in ReqIds :
        /\ modelAnswered(reqs[r])
        /\ reqs[r].modelText = <<"{", "e", ",">>
        /\ reqs[r].threw = "analyzeRepository"
        /\ lastEvent(reqs[r]).step = "error"

completed(req) ==
    req.kind = "analyze" /\ req.events # <<>> /\ lastEvent(req).step = "complete"

\* C10: when a signed-in user has run an analysis to its complete event, a
\* GET /api/user/analyses of that user answers with a list that holds the
\* analysis the complete event named.
Claim_C10 ==
    [][\A r \in ReqIds, q \in ReqIds :
          ( /\ reqs[r].pc = "idle" /\ reqs'[r].kind = "userAnalyses"
            /\ reqs'[r].user # NoUser
            /\ completed(reqs[q]) /\ reqs[q].user = reqs'[r].user ) =>
              /\ reqs'[r].status = 200
              /\ \E i \in DOMAIN reqs'[r].rows : reqs'[r].rows[i].id = lastEvent(reqs[q]).id]_vars

\* A user's analysis has completed and the user's list request is answered 500.
Wit_C10 ==
    \E r \in ReqIds, q \in ReqIds :
        /\ completed(reqs[q]) /\ reqs[q].user.userId = 1 /\ reqs[q].cached = NoRow
        /\ reqs[r].kind = "userAnalyses" /\ reqs[r].user = reqs[q].user
        /\ reqs[r].status = 500

\* ---- /api/auth

UniqueUsernames(rows) == \A u \in rows, v \in rows : u.username = v.username => u = v

\* The body passes the handler's checks of username and password.
wellFormed(req) ==
    Len(req.username) >= MinUsernameLen /\ Len(req.password) >= MinPasswordLen

\* C8: whatever way POST /api/auth/signup requests interleave, at the Express
\* server and at the Worker, no two stored users have the same username, and
\* a sign-up for a username that was stored when it arrived returns no token:
\* with a well-formed body it is answered 409 "Username already taken".
Claim_C8 ==
    /\ UniqueUsernames(users)
    /\ UniqueUsernames(wUsers)
    /\ \A r \in AuthIds :
          (authReqs[r].kind = "signup" /\ authReqs[r].pc = "done" /\ authReqs[r].taken) =>
              /\ authReqs[r].token = NoToken
              /\ wellFormed(authReqs[r]) =>
                    authReqs[r].status = 409 /\ authReqs[r].error = "Username already taken"

\* The Worker stores two users of one username, and both sign-ups got a token.
Wit_C8 ==
    /\ variant = "worker"
    /\ \E u \in wUsers, v \in wUsers : u # v /\ u.username = v.username
    /\ \A r \in AuthIds :
          authReqs[r].kind = "signup" /\ authReqs[r].pc = "done" /\ authReqs[r].status = 200

signinAnswered(req) == req.kind = "signin" /\ req.pc = "done"

Rejected(req) ==
    /\ req.status = 401 /\ req.error = "Invalid username or password"
    /\ req.token = NoToken /\ req.user = NoUser

\* C9: POST /api/auth/signin returns a token only when a user of the given
\* username is stored and the given password matches that user's hash; the
\* token's payload is that user's id and username; an unknown username and a
\* wrong password get the same answer, 401 "Invalid username or password";
\* no step of a sign-in changes the stored users.
Thm_C9 ==
    /\ [](\A r \in AuthIds :
            signinAnswered(authReqs[r]) =>
                /\ authReqs[r].token # NoToken =>
                      \E u \in users :
                          /\ u.username = authReqs[r].username
                          /\ u.password = [bcrypt |-> authReqs[r].password]
                          /\ authReqs[r].token.payload = [userId |-> u.id, username |-> u.username]
                          /\ authReqs[r].token.signedBy = "JWT_SECRET"
                          /\ authReqs[r].status = 200
                /\ ( /\ authReqs[r].username # "" /\ authReqs[r].password # ""
                     /\ \A u \in users :
                           u.username = authReqs[r].username =>
                               u.password # [bcrypt |-> authReqs[r].password] )
                      => Rejected(authReqs[r]))
    /\ [][\A r \in AuthIds :
            ( /\ authReqs'[r] # authReqs[r]
              /\ authReqs[r].kind = "signin" \/ authReqs'[r].kind = "signin" )
                => users' = users /\ nextUserId' = nextUserId]_vars

Wit_C9 ==
    \E r \in AuthIds, q \in AuthIds :
        /\ signinAnswered(authReqs[r]) /\ authReqs[r].username = "bob"
        /\ authReqs[r].token = signToken([userId |-> 2, username |-> "bob"])
        /\ signinAnswered(authReqs[q]) /\ authReqs[q].username = "alice"
        /\ Rejected(authReqs[q])
        /\ \E u \in users : u.username = "alice"


\* ---- /api/user/analyses and /api/analysis/:id

\* A GET /api/user/analyses is answered in this step.
listAnswered(r) == reqs[r].pc = "idle" /\ reqs'[r].kind = "userAnalyses"

\* C11: a GET /api/user/analyses that carries a valid token of a stored user
\* is answered 200 with records stored under that user's id only, newest
\* first; one that does not is answered 401 without records.
Claim_C11 ==
    [][\A r \in ReqIds :
          listAnswered(r) =>
              IF reqs'[r].user # NoUser
              THEN /\ reqs'[r].status = 200
                   /\ \A i \in DOMAIN reqs'[r].rows :
                         \E a \in analyses :
                            /\ a.id = reqs'[r].rows[i].id
                            /\ "userId" \in DOMAIN a
                            /\ a["userId"] = reqs'[r].user.userId
                   /\ \A i, j \in DOMAIN reqs'[r].rows :
                         i < j => reqs'[r].rows[i].createdAt >= reqs'[r].rows[j].createdAt
              ELSE reqs'[r].status = 401 /\ reqs'[r].rows = <<>>]_vars

\* The second user asks for the list while rows are stored, and is answered
\* 500.
Wit_C11 ==
    \E r \in ReqIds :
        /\ reqs[r].kind = "userAnalyses" /\ reqs[r].user.userId = 2
        /\ analyses # {}
        /\ reqs[r].status = 500 /\ reqs[r].rows = <<>>

\* A GET /api/analysis/:id is answered in this step.
getAnswered(r) == reqs[r].pc = "idle" /\ reqs'[r].kind = "getAnalysis"

Claim_C13 == pgPc = "parsed" => pgWorker = pgResult

\* github.com/{owner}/{repo} followed by a further path segment: the Express
\* server's parser returns the pair, the Worker's returns null.
Wit_C13 ==
    /\ pgPc = "parsed"
    /\ pgParts.kind = "form" /\ pgParts.scheme = "host" /\ pgParts.extra # <<>>
    /\ pgResult = [ok |-> TRUE, owner |-> pgParts.owner, repo |-> pgParts.repo]
    /\ pgWorker = NullParse

\* C24: every input the client's form validation accepts is parsed by the
\* server's parseGitHubUrl, so it is not answered 400 "Invalid GitHub URL".
Claim_C24 ==
    (pgPc = "parsed" /\ pgClient) => pgResult.ok

\* The form validation accepted www.github.com/a/a, which the server cannot parse.
Wit_C24 ==
    /\ pgPc = "parsed"
    /\ pgClient
    /\ pgParts.kind = "form" /\ pgParts.scheme = "wwwHost"
    /\ ~Includes(pgParts.owner, ".")
    /\ pgResult = NullParse

\* The accepted inputs the server does not parse are those with a "." in the
\* owner and those written www.github.com/... without a scheme.
acceptedUnparsed ==
    (pgPc = "parsed" /\ pgClient /\ ~pgResult.ok) =>
        /\ pgParts.kind = "form"
        /\ Includes(pgParts.owner, ".") \/ pgParts.scheme = "wwwHost"

\* ---- /api/validate-url and the checks of /api/analyze

validateAnswered(req) == req.kind = "validateUrl" /\ req.pc = "done"

\* C14: /api/validate-url answers valid:true, with the owner and repo parsed
\* from the url and the repoInfo fetched for them, only when the url parses
\* and fetchRepoInfo returned; it answers 400 when the url is missing or does
\* not parse, without calling GitHub, and 404 'Repository not found:
\* owner/repo' whatever fetchRepoInfo threw; it calls nothing but
\* fetchRepoInfo, and no step of it changes the stored analyses.
Thm_C14 ==
    /\ [](\A r \in ReqIds :
            /\ reqs[r].kind = "validateUrl" =>
                  /\ IsPrefix(reqs[r].calls, <<"fetchRepoInfo">>)
                  /\ reqs[r].events = <<>> /\ ~reqs[r].sse
                  /\ reqs[r].saved = NoRow
            /\ validateAnswered(reqs[r]) =>
                  LET p == parseGitHubUrl(UrlText[reqs[r].url])
                  IN  /\ reqs[r].status \in {200, 400, 404}
                      /\ reqs[r].valid <=> reqs[r].status = 200
                      /\ reqs[r].valid <=>
                            (p.ok /\ reqs[r].returned = <<"fetchRepoInfo">> /\ reqs[r].threw = "")
                      /\ reqs[r].valid =>
                            /\ reqs[r].parsed = p
                            /\ reqs[r].repoInfo = RepoInfoOf(p.owner, p.repo)
                      /\ (UrlText[reqs[r].url] = <<>> \/ ~p.ok) <=> reqs[r].status = 400
                      /\ reqs[r].status = 400 => reqs[r].calls = <<>>
                      /\ reqs[r].threw # "" <=> reqs[r].status = 404
                      /\ reqs[r].status = 404 =>
                            reqs[r].error = <<"Repository not found: ", p.owner, "/", p.repo>>)
    /\ [][\A r \in ReqIds :
            (reqs'[r].kind = "validateUrl" /\ reqs'[r] # reqs[r]) =>
                analyses' = analyses /\ nextId' = nextId]_vars

\* A validation is answered 404 after GitHub refused the call for its rate
\* limit, while an analysis is stored.
Wit_C14 ==
    \E r \in ReqIds :
        /\ validateAnswered(reqs[r]) /\ reqs[r].url = "httpsGit"
        /\ reqs[r].threw = "GitHub API rate limit exceeded"
        /\ reqs[r].status = 404
        /\ analyses # {}

\* An /api/analyze request is taken up in this step.
analyzeArrived(r) == reqs[r].pc = "idle" /\ reqs'[r].kind = "analyze"

\* The request was answered with a JSON error: no stream, no event, no call,
\* no cached or saved row.
refused(req, code, error) ==
    /\ req.status = code /\ req.error = error
    /\ ~req.sse /\ req.events = <<>>
    /\ req.calls = <<>>
    /\ req.cached = NoRow /\ req.saved = NoRow
    /\ req.ended /\ req.pc = "done"

\* C15: /api/analyze answers 400 when the url is missing; else 500 when
\* GEMINI_API_KEY is not set; else 400 when the url does not parse; each time
\* with a JSON error and no stream, event, GitHub or model call, cache result
\* or new row. Only a request that passes the three checks opens a stream.
Thm_C15 ==
    [][\A r \in ReqIds :
          analyzeArrived(r) =>
              LET text == UrlText[reqs'[r].url]
              IN  /\ IF text = <<>>
                     THEN refused(reqs'[r], 400, "URL is required")
                     ELSE IF ~geminiKey
                     THEN refused(reqs'[r], 500, "Gemini API key is not configured")
                     ELSE IF ~parseGitHubUrl(text).ok
                     THEN refused(reqs'[r], 400, "Invalid GitHub URL")
                     ELSE reqs'[r].sse /\ reqs'[r].status = 0 /\ reqs'[r].events # <<>>
                  /\ reqs'[r].status # 0 => analyses' = analyses /\ nextId' = nextId]_vars

\* Without the key, a url that does not parse is answered 500: the key is
\* checked before the url is parsed.
Wit_C15 ==
    \E r \in ReqIds :
        /\ reqs[r].kind = "analyze" /\ reqs[r].url = "dotted" /\ ~geminiKey
        /\ reqs[r].status = 500 /\ ~reqs[r].sse /\ reqs[r].events = <<>>

\* ---- the records /api/analyze creates

endsWith(req, step) == req.events # <<>> /\ lastEvent(req).step = step

\* C16: a row is stored only by the step in which a request's createAnalysis
\* returns, one row, and that step sends the request's complete event; a
\* request stores at most one row; the step that sends a request's error event
\* stores nothing, and a request whose stream ended with error has stored no
\* row.
Thm_C16 ==
    /\ [](\A r \in ReqIds :
            reqs[r].kind = "analyze" =>
                /\ endsWith(reqs[r], "error") => reqs[r].saved = NoRow
                /\ reqs[r].saved # NoRow =>
                      reqs[r].saved \in analyses /\ endsWith(reqs[r], "complete"))
    /\ [][analyses' # analyses =>
            \E r \in ReqIds :
                /\ reqs[r].pc = "createAnalysis" /\ reqs[r].saved = NoRow
                /\ \A q \in ReqIds \ {r} : reqs'[q] = reqs[q]
                /\ reqs'[r].pc = "done" /\ endsWith(reqs'[r], "complete")
                /\ analyses' = analyses \cup {reqs'[r].saved}
                /\ reqs'[r].saved \notin analyses]_vars
    /\ [][\A r \in ReqIds :
            (reqs'[r].kind = "analyze" /\ reqs'[r] # reqs[r] /\ endsWith(reqs'[r], "error"))
                => analyses' = analyses /\ nextId' = nextId]_vars

\* createAnalysis threw in a request while another request's row is stored:
\* the stream ended with error and the table holds that one row only.
Wit_C16 ==
    \E r \in ReqIds :
        /\ reqs[r].kind = "analyze" /\ reqs[r].threw = "createAnalysis"
        /\ endsWith(reqs[r], "error") /\ reqs[r].saved = NoRow
        /\ Cardinality(analyses) = 1

\* The rows stored for the owner and repo of a request.
storedFor(req) == {a \in analyses : a.owner = req.parsed.owner /\ a.repo = req.parsed.repo}

\* The request ran the whole pipeline and stored its row.
ranToCompletion(req) ==
    req.kind = "analyze" /\ req.returned = pipeline /\ req.threw = "" /\ req.saved # NoRow

sameRepoUnforced(r, q) ==
    /\ r # q
    /\ reqs[r].kind = "analyze" /\ reqs[q].kind = "analyze"
    /\ ~reqs[r].forceRefresh /\ ~reqs[q].forceRefresh
    /\ reqs[r].parsed.ok /\ reqs[r].parsed = reqs[q].parsed

calledModel(req) == \E i \in DOMAIN req.calls : req.calls[i] = "analyzeRepository"

\* C18: of two /api/analyze requests without forceRefresh for the same owner
\* and repo, however their steps interleave, at most one calls the model and
\* at most one stores a row.
Claim_C18 ==
    \A r \in ReqIds, q \in ReqIds :
        sameRepoUnforced(r, q) =>
            /\ ~(calledModel(reqs[r]) /\ calledModel(reqs[q]))
            /\ ~(reqs[r].saved # NoRow /\ reqs[q].saved # NoRow)

\* Two requests without forceRefresh for the same repository, written in two
\* forms, both called the model and each stored a row of its own.
Wit_C18 ==
    \E r \in ReqIds, q \in ReqIds :
        /\ sameRepoUnforced(r, q)
        /\ reqs[r].url = "bare" /\ reqs[q].url = "httpsGit"
        /\ calledModel(reqs[r]) /\ calledModel(reqs[q])
        /\ reqs[r].saved \in analyses /\ reqs[q].saved \in analyses
        /\ reqs[r].saved.id # reqs[q].saved.id

\* ---- analyzeRepository

\* The key files a prompt embeds, by their `--- FILE: ... ---` lines.
embeddedFiles(prompt) == {k \in 1..Len(FileHeader) : FileHeader[k] \in Range(prompt)}

firstTruncated ==
    gmResponses # <<>> /\ gmResponses[1].kind = "response"
    /\ gmResponses[1].finishReason = "MAX_TOKENS"

\* The calls analyzeRepository makes: at most two; a second one exactly when
\* the first response finished with MAX_TOKENS and more than 5 key files were
\* supplied; nothing is called after the second response, truncated or not.
retryDiscipline ==
    /\ Len(gmPrompts) <= 2
    /\ Len(gmResponses) <= Len(gmPrompts)
    /\ gmResponses # <<>> =>
          (Len(gmPrompts) = 2 <=> (firstTruncated /\ Len(gmArgs.keyFiles) > 5))
    /\ Len(gmResponses) = 2 => gmPc \in {"returned", "threw"}
    /\ gmPc \in {"returned", "threw"} =>
          gmOut.modelCalls = Len(gmPrompts) /\ Len(gmResponses) = Len(gmPrompts)

\* C19: analyzeRepository calls the model at most twice, a second time exactly
\* when the first response finished with MAX_TOKENS and there are more than 5
\* key files, never a third time; the second prompt embeds the first
\* ceil(n/2) of the n key files and no other.
Claim_C19 ==
    /\ retryDiscipline
    /\ Len(gmPrompts) = 2 =>
          embeddedFiles(gmPrompts[2]) = 1..((Len(gmArgs.keyFiles) + 1) \div 2)

\* Seven key files, the second holding the words "Provide a detailed": the
\* retry prompt still embeds all seven.
Wit_C19 ==
    /\ gmPc = "second"
    /\ Len(gmArgs.keyFiles) = 7
    /\ S_provide \in Range(gmArgs.keyFiles[2].content)
    /\ embeddedFiles(gmPrompts[2]) = 1..7

\* The text analyzeRepository parses: the last response's, "{}" for an empty one.
lastRawText ==
    LET response == gmResponses[Len(gmResponses)]
    IN  IF response.text = <<>> THEN <<"{", "}">> ELSE response.text

answeredWithJson ==
    /\ gmPc \in {"returned", "threw"}
    /\ gmResponses[Len(gmResponses)].kind = "response"
    /\ JSONparse(lastRawText).ok

\* C20: when the response analyzeRepository parses is JSON, it returns an
\* analysis whose repoInfo is the repoInfo argument, whose languages are the
\* languages argument when that is not empty, in which each member the
\* response lacks holds its default (an empty list; for databaseMapping
\* {database: 'None', orm: 'None', models: [], services: []}), and whose
\* readmeArchitecture and mermaidDiagram are empty.
Claim_C20 ==
    answeredWithJson =>
        LET members == JSONparse(lastRawText).members
            value == gmOut.value
        IN  /\ gmPc = "returned" /\ gmOut.ok
            /\ value.repoInfo = gmArgs.repoInfo
            /\ gmArgs.languages # <<>> => value.languages = gmArgs.languages
            /\ "t" \notin members =>
                  /\ value.frameworks = <<>>
                  /\ gmArgs.languages = <<>> => value.languages = <<>>
            /\ "e" \notin members => value.apiEndpoints = <<>>
            /\ "d" \notin members => value.databaseMapping = DefaultDatabaseMapping
            /\ value.readmeArchitecture = <<>> /\ value.mermaidDiagram = <<>>

\* The response is the JSON text null: analyzeRepository throws.
Wit_C20 ==
    /\ answeredWithJson
    /\ lastRawText = <<"n">>
    /\ gmPc = "threw"
    /\ gmOut.error = "Cannot read properties of null"

\* ---- authMiddleware and optionalAuthMiddleware

\* A request to a route behind authMiddleware is answered in this step.
protectedAnswered(r) ==
    reqs[r].pc = "idle" /\ reqs'[r].kind \in {"userAnalyses", "authMe"}

\* The header starts with "Bearer ", its token verifies, and a user with the
\* token's userId is stored.
admissible(header) ==
    /\ header.scheme = "Bearer"
    /\ header.token.signedBy = "JWT_SECRET"
    /\ \E u \in users : u.id = header.token.payload.userId

\* C21: a request to /api/auth/me or /api/user/analyses reaches the handler,
\* with req.user the token's payload, only when its Authorization header
\* starts with "Bearer ", the token verifies and a user with the token's
\* userId is stored; otherwise it is answered 401, the handler does not run
\* and req.user stays unset.
Thm_C21 ==
    [][\A r \in ReqIds :
          protectedAnswered(r) =>
              IF admissible(reqs'[r].auth)
              THEN /\ reqs'[r].user = reqs'[r].auth.token.payload
                   /\ reqs'[r].status # 401
                   /\ reqs'[r].kind = "authMe" =>
                         /\ reqs'[r].status = 200
                         /\ reqs'[r].rows = <<[id |-> reqs'[r].user.userId,
                                               username |-> reqs'[r].user.username]>>
              ELSE /\ reqs'[r].status = 401
                   /\ reqs'[r].user = NoUser
                   /\ reqs'[r].rows = <<>>
                   /\ reqs'[r].calls = <<>>]_vars

\* A token the server signed for a user that is not stored: 401 'User not
\* found'.
Wit_C21 ==
    \E r \in ReqIds :
        /\ reqs[r].kind = "authMe"
        /\ reqs[r].auth.scheme = "Bearer" /\ reqs[r].auth.token.signedBy = "JWT_SECRET"
        /\ reqs[r].auth.token.payload.userId = 9
        /\ reqs[r].status = 401 /\ reqs[r].user = NoUser

\* C22: /api/analyze is never answered 401; its handler runs once for each
\* request, with req.user the token's payload when the header is a Bearer
\* token that verifies and unset otherwise; a request without a token or with
\* one that does not verify passes userId null to createAnalysis, and the row
\* it stores names no user.
Thm_C22 ==
    /\ [][\A r \in ReqIds :
            analyzeArrived(r) =>
                /\ reqs'[r].status # 401
                /\ reqs'[r].user =
                      IF /\ reqs'[r].auth.scheme = "Bearer"
                         /\ reqs'[r].auth.token.signedBy = "JWT_SECRET"
                      THEN reqs'[r].auth.token.payload
                      ELSE NoUser]_vars
    /\ [](\A r \in ReqIds :
            ( /\ reqs[r].kind = "analyze" /\ reqs[r].saved # NoRow
              /\ ~(reqs[r].auth.scheme = "Bearer" /\ reqs[r].auth.token.signedBy = "JWT_SECRET") ) =>
                /\ insertValues(reqs[r]).userId = NoUser.userId
                /\ "userId" \in DOMAIN reqs[r].saved => reqs[r].saved["userId"] = NoUser.userId
                /\ endsWith(reqs[r], "complete"))

\* A request with a token the server did not sign ran to completion as an
\* anonymous one.
Wit_C22 ==
    \E r \in ReqIds :
        /\ reqs[r].kind = "analyze"
        /\ reqs[r].auth.scheme = "Bearer" /\ reqs[r].auth.token.signedBy = "other"
        /\ reqs[r].user = NoUser
        /\ reqs[r].saved \in analyses
        /\ insertValues(reqs[r]).userId = NoUser.userId

----------------------------------------------------------------------------
(* fetchKeyFiles: what a call returns *)

\* The value a finished call returned: one entry for each of the first 60
\* selected files, in tree order, each content at most 3000 characters, and
\* empty for the file whose getContent request failed.
returnedKeyFiles ==
    kfPc = "done" =>
        /\ Len(kfResults) = Min(MaxKeyFiles, Len(filesToFetch(kfAllFiles)))
        /\ \A p \in 1..Len(kfResults) :
              /\ kfResults[p].path = filesToFetch(kfAllFiles)[p]
              /\ kfResults[p].content.len <= MaxContentLen
              /\ p = kfFailPos => kfResults[p].content.len = 0
              /\ p # kfFailPos => kfResults[p].content.src = kfResults[p].path

\* C23: fetchKeyFiles returns one entry per selected file for the first 60
\* selected files, in tree order, whatever order the content fetches complete
\* in, each content cut to 3000 characters; a content fetch that fails gives
\* an entry with empty content and never makes the call fail.
Claim_C23 ==
    /\ returnedKeyFiles
    /\ kfPc # "threw"

\* A content fetch rejected and the call threw with entries still to collect.
Wit_C23 ==
    /\ kfPc = "threw"
    /\ Len(kfLimited) = MaxKeyFiles
    /\ Len(kfResults) < Len(kfLimited)

----------------------------------------------------------------------------
(* The analysis page *)

\* The events up to and including the first "error" event.
RECURSIVE untilError(_)
untilError(events) ==
    IF events = <<>> THEN <<>>
    ELSE IF Head(events).step = "error" THEN <<Head(events)>>
    ELSE <<Head(events)>> \o untilError(Tail(events))

\* The events whose text, separator included, has been delivered in full.
RECURSIVE deliveredOf(_, _)
deliveredOf(events, n) ==
    IF events = <<>> \/ Len(sendEvent(Head(events))) > n THEN <<>>
    ELSE <<Head(events)>> \o deliveredOf(Tail(events), n - Len(sendEvent(Head(events))))

\* C25: however the response text is cut into chunks, the recorded steps are
\* the events delivered so far, each once and in the order sent, up to and
\* including the first "error" event; when the stream has ended they are all
\* the events sent up to and including the first "error" event.
Thm_C25 ==
    /\ stPc \in {"reading", "returned", "done"} =>
          stSteps = untilError(deliveredOf(stSent, stPos))
    /\ stPc = "done" => stSteps = untilError(stSent)
    /\ stPc = "returned" =>
          /\ stSteps = untilError(stSent)
          /\ stSteps[Len(stSteps)].step = "error"

\* A stream of three events was read to its end in chunks that ended inside
\* an event and between the two line feeds of a separator.
Wit_C25 ==
    /\ stPc = "done"
    /\ Len(stSent) = MaxEvents
    /\ {"event", "separator"} \subseteq stCuts
    /\ stSteps = stSent

isFrontendNode(node) == node.id[1] = "frontend-"
isModelNode(node) == node.id[1] = "model-"
isExternalNode(node) == node.id[1] = "ext-"

\* buildFlowElements returns at most 8 frontend nodes, 6 model nodes and 6
\* external-service nodes.
flowCaps ==
    flPc = "built" =>
        /\ Len(SelectSeq(flNodes, isFrontendNode)) <= MaxFrontendNodes
        /\ Len(SelectSeq(flNodes, isModelNode)) <= MaxModelNodes
        /\ Len(SelectSeq(flNodes, isExternalNode)) <= MaxExternalNodes

\* C26: the graph buildFlowElements returns is well formed: node ids are
\* pairwise distinct, the source and the target of every edge are ids of
\* returned nodes, and there are at most 8 frontend nodes, 6 model nodes and
\* 6 external-service nodes.
Claim_C26 ==
    flPc = "built" =>
        /\ \A j, k \in 1..Len(flNodes) : j # k => flNodes[j].id # flNodes[k].id
        /\ \A k \in 1..Len(flEdges) :
              flEdges[k].source \in idsOf(flNodes) /\ flEdges[k].target \in idsOf(flNodes)
        /\ flowCaps

\* A dependency named by a node's label became an edge whose source is not
\* the id of any node.
Wit_C26 ==
    /\ flPc = "built"
    /\ \E k \in 1..Len(flEdges) :
          /\ flEdges[k].id[1] = "dep-edge-"
          /\ flEdges[k].source \in labelsOf(flNodes)
          /\ flEdges[k].source \notin idsOf(flNodes)

\* Two endpoints with the same method and path gave two nodes with one id.
duplicateApiNode ==
    /\ flPc = "built"
    /\ \E j, k \in 1..Len(flNodes) : j # k /\ flNodes[j].id = flNodes[k].id

----------------------------------------------------------------------------
(* The Worker's analyze route *)

\* No part of the text is a JSON object.
noJsonObject(text) ==
    \A i \in 1..Len(text) : \A j \in i..Len(text) :
        ~(JSONparse(SubSeq(text, i, j)).ok /\ ~JSONparse(SubSeq(text, i, j)).isNull)

wkLast(req) == req.events[Len(req.events)]

wkSteps(req) == {req.events[k].step : k \in 1..Len(req.events)}

\* Request r got a model text with no JSON object in it.
wkUnparseable(r) ==
    /\ wkReqs[r].pc = "done"
    /\ wkReqs[r].answer = "text"
    /\ noJsonObject(wkReqs[r].text)

\* What holds of such a request apart from the skeleton's name and owner: no
\* error event, a final complete event carrying the skeleton, empty lists,
\* the raw text as readmeArchitecture, and the other repoInfo fields as
\* GitHub answered them.
wkSkeletonAnswer(r) ==
    LET req == wkReqs[r]
    IN  /\ "error" \notin wkSteps(req)
        /\ wkLast(req).step = "complete"
        /\ wkLast(req).analysis = req.analysis
        /\ req.analysis.kind = "skeleton"
        /\ \A f \in WkListFields : req.analysis.lists[f] = <<>>
        /\ req.analysis.readmeArchitecture = req.text
        /\ req.analysis.repoInfo.description = orEmpty(req.repoInfo.description)
        /\ req.analysis.repoInfo.stars = req.repoInfo.stargazers_count
        /\ req.analysis.repoInfo.forks = req.repoInfo.forks_count
        /\ req.analysis.repoInfo.language = orEmpty(req.repoInfo.language)
        /\ req.analysis.repoInfo.url = orEmpty(req.repoInfo.html_url)

\* Every completed analysis is stored under its id, and ids are not shared.
wkStored ==
    /\ \A r \in WkIds :
          (wkReqs[r].pc = "done" /\ wkReqs[r].id # 0) =>
              /\ wkLast(wkReqs[r]).step = "complete" /\ wkLast(wkReqs[r]).id = wkReqs[r].id
              /\ \E a \in wkAnalyses : a.id = wkReqs[r].id /\ a.analysisData = wkReqs[r].analysis
    /\ \A a, b \in wkAnalyses : a.id = b.id => a = b
    /\ \A r, q \in WkIds : (r # q /\ wkReqs[r].id # 0) => wkReqs[r].id # wkReqs[q].id

\* A step that completes an analysis stores it under an id larger than every
\* id given before, and leaves the rows stored before as they were.
wkFreshId ==
    \A r \in WkIds :
        (wkReqs[r].pc = "callGemini" /\ wkReqs'[r].id # 0) =>
            /\ \A a \in wkAnalyses : a.id < wkReqs'[r].id
            /\ wkCounter < wkReqs'[r].id
            /\ wkAnalyses \subseteq wkAnalyses'
            /\ \E a \in wkAnalyses' \ wkAnalyses : a.id = wkReqs'[r].id

\* C27, as stated: in the Worker a model response with no parseable JSON
\* object gives no error event but a complete event with a skeleton whose
\* repoInfo is what GitHub answered, whose lists are empty and whose
\* readmeArchitecture is the raw text; every completed analysis is stored
\* under a fresh, unique id larger than all earlier ids.
Orig_C27 ==
    /\ wkStored
    /\ \A r \in WkIds :
          wkUnparseable(r) =>
              /\ wkSkeletonAnswer(r)
              /\ wkReqs[r].analysis.repoInfo.name = wkReqs[r].repoInfo.name
              /\ wkReqs[r].analysis.repoInfo.owner = wkReqs[r].repoInfo.login

\* C27, amended: the same, with the skeleton's name and owner taken from the
\* request's URL as parseGitHubUrl split it, and its description, stars,
\* forks, language and url from GitHub's answer.
Thm_C27 ==
    /\ [](/\ wkStored
          /\ \A r \in WkIds :
                wkUnparseable(r) =>
                    /\ wkSkeletonAnswer(r)
                    /\ wkReqs[r].analysis.repoInfo.name = wkReqs[r].parsed.repo
                    /\ wkReqs[r].analysis.repoInfo.owner = wkReqs[r].parsed.owner)
    /\ [][wkFreshId]_vars

\* Two requests that ran at the same time both ended with a skeleton, one of
\* them for a URL spelled differently from GitHub's name, under ids 1 and 2.
Wit_C27 ==
    /\ \A r \in WkIds : wkUnparseable(r) /\ wkReqs[r].analysis.kind = "skeleton"
    /\ {wkReqs[r].id : r \in WkIds} = {1, 2}
    /\ \E r \in WkIds :
          /\ wkReqs[r].text # <<>>
          /\ wkReqs[r].repoInfo.name # wkReqs[r].parsed.repo
          /\ wkReqs[r].analysis.repoInfo.name = wkReqs[r].parsed.repo
====
